---- MODULE Spec2Model ----
(***************************************************************************)
(* A model of the Aleo Oracle SDK client (zkportal/aleo-oracle-sdk-js):    *)
(* one OracleClient, one public call at a time, with the DNS resolutions   *)
(* and HTTP requests of the call as concurrent branches that settle one by *)
(* one in any order.                                                       *)
(*                                                                         *)
(* Backends are numbered 1..numBackends in their configured order; list    *)
(* positions that the program counts from 0 (the verifier's validReports)  *)
(* are kept 0-based and converted where they index a TLA+ sequence.        *)
(***************************************************************************)
EXTENDS Integers, Sequences, FiniteSets, TLC

\* ---------------------------------------------------------------- bounds

MaxBackends == 3
MaxIps == 2
MaxTimestamp == 11
MaxVerdictLen == 2
MaxPrefixLen == 3
MaxAddressLen == 2
MaxUrlLen == 3

\* ------------------------------------------------------ input alphabets

\* Server timestamps. The range straddles a change in the number of decimal
\* digits, which is where Array.prototype.sort() without a comparator and the
\* numeric order part ways.
Timestamps == 9..MaxTimestamp

AttestationData == {"a", "b"}

NoDeviation == -1

\* res.statusCode as fetch hands it on: an OK and an error status. Nothing
\* reads the status before the interpreter does, and the specifications that
\* explore the interleavings leave it open until then: Deferred.
Statuses == {200, 500}

Deferred == -1

\* The timestamp member of a body that has none.
NoTimestamp == 0

DEFAULT_TIMEOUT_MS == 5000

\* options.maxTimeDeviation: undefined (NoDeviation), or a number of ms.
Deviations == {NoDeviation, 0, 1}

\* options.timeout: 0 stands for undefined / 0 (both falsy), else a number of ms.
Timeouts == {0, 1000}

NotarizationOptions ==
  [dataShouldMatch : BOOLEAN, timeout : Timeouts, maxTimeDeviation : Deviations]

\* What one delivered HTTP response holds: a status, and a body that
\* JSON.parse accepts or not; a parsed 200 body carries the attestation, a
\* parsed error body has a responseBody member (the debug error shape) or not.
ResponseContents ==
  [status : {200, 500}, parses : {FALSE}, responseBody : {FALSE},
   attestationData : {"a"}, timestamp : {9}]
    \cup [status : {500}, parses : {TRUE}, responseBody : BOOLEAN,
          attestationData : {"a"}, timestamp : {9}]
    \cup [status : {200}, parses : {TRUE}, responseBody : {FALSE},
          attestationData : AttestationData, timestamp : Timestamps]

\* validReports of the verifier's body: any short list of integers, positions
\* of the batch or not.
RECURSIVE SeqsUpTo(_, _)
SeqsUpTo(S, n) ==
  IF n = 0 THEN {<<>>}
  ELSE LET shorter == SeqsUpTo(S, n - 1)
       IN  shorter \cup {Append(s, x) : s \in {t \in shorter : Len(t) = n - 1}, x \in S}

Verdicts == SeqsUpTo(-1..MaxBackends, MaxVerdictLen)

\* The verdict that accepts every position of any batch.
AcceptAll == [i \in 1..MaxBackends |-> i - 1]

VerifierContents ==
  [status : {200, 500}, parses : {FALSE}, validReports : {<<>>}]
    \cup [status : {500}, parses : {TRUE}, validReports : {<<>>}]
    \cup [status : {200}, parses : {TRUE}, validReports : Verdicts \cup {AcceptAll}]

\* The alphabets of Spec, which explores every interleaving of the DNS answers
\* and of the responses of every resolved address: one good payload and one
\* error payload, one accepting and one rejecting verifier.
MeshOptions ==
  [dataShouldMatch : {TRUE}, timeout : Timeouts, maxTimeDeviation : {NoDeviation}]

MeshContents ==
  { [status |-> 200, parses |-> TRUE, responseBody |-> FALSE,
     attestationData |-> "a", timestamp |-> 9],
    [status |-> 500, parses |-> TRUE, responseBody |-> FALSE,
     attestationData |-> "a", timestamp |-> 9] }

MeshVerifierContents ==
  { [status |-> 200, parses |-> TRUE, validReports |-> AcceptAll],
    [status |-> 500, parses |-> TRUE, validReports |-> <<>>] }

\* A 200 body that parses to an object without attestationData and timestamp,
\* such as {}: reading either member gives undefined.
Shapeless ==
  [status |-> 200, parses |-> TRUE, responseBody |-> FALSE,
   attestationData |-> "undefined", timestamp |-> NoTimestamp]

\* The alphabet of SpecShape: a well formed attestation, and a shapeless one.
ShapeContents ==
  { [status |-> 200, parses |-> TRUE, responseBody |-> FALSE,
     attestationData |-> "a", timestamp |-> 9],
    Shapeless }

\* The alphabet of SpecValidator: every list of up to n attestations, the
\* k-th one under the name of backend k.
AttestationLists(n) ==
  UNION { { [k \in 1..len |-> [backend |-> k, attestationData |-> f[k][1],
                                timestamp |-> f[k][2]]] :
              f \in [1..len -> AttestationData \X Timestamps] } : len \in 0..n }

ValidatorOptions ==
  [dataShouldMatch : BOOLEAN, timeout : {0}, maxTimeDeviation : Deviations]

\* The alphabet of SpecFetch: init.headers of a backend without a host header,
\* with one written Host, with one written host, with both.
CallerHeaders ==
  { <<>>,
    << <<"Host", <<"x">>>> >>,
    << <<"host", <<"x">>>>, <<"accept", <<"x">>>> >>,
    << <<"host", <<"x">>>>, <<"Host", <<"y">>>> >> }

\* The alphabet of SpecOrigin: a 200 body as the backends write it, and one
\* with an enclaveUrl member of its own.
OriginContents ==
  { [status |-> 200, parses |-> TRUE, responseBody |-> FALSE,
     attestationData |-> "a", timestamp |-> 9],
    [status |-> 200, parses |-> TRUE, responseBody |-> FALSE,
     attestationData |-> "a", timestamp |-> 9,
     enclaveUrl |-> [backend |-> 0, address |-> <<"x">>]] }

StatusOptions ==
  [dataShouldMatch : {TRUE}, timeout : {0}, maxTimeDeviation : {NoDeviation}]

\* What dns.resolve4 answers: one address, or two.
MeshAnswers == { <<1>>, <<1, 2>> }

\* The alphabet of SpecResolver: every non-empty list of distinct addresses.
\* dns.resolve4 rejects (ENODATA, ENOTFOUND) where it has no address to return.
ResolverAnswers == { <<1>>, <<2>>, <<1, 2>>, <<2, 1>> }

\* 1n (refused) and 2n (accepted).
MeshRandomInputs == { <<1>>, <<1, 0>> }

\* The alphabets of SpecPayload, whose backends are configured by literal IP:
\* every payload, every option of the validator, every verdict.
PayloadOptions ==
  [dataShouldMatch : BOOLEAN, timeout : {0}, maxTimeDeviation : Deviations]

\* The alphabet of SpecConstructor: strings are sequences of characters, here
\* a slash, a letter and a blank, which is what trimPath and trimUrl tell apart.
Chars == {"/", "a", " "}

\* A CustomBackendConfig as far as the constructor and the resolver read it:
\* literal stands for net.isIP(address) !== 0. An apiPrefix left undefined
\* and the empty apiPrefix are both <<>>: the code reads it as apiPrefix || ''.
NoBackend == [address |-> <<>>, apiPrefix |-> <<>>, resolve |-> FALSE, literal |-> FALSE,
              given |-> FALSE]

NotarizerConfigs ==
  [address : SeqsUpTo(Chars, MaxAddressLen), apiPrefix : SeqsUpTo(Chars, MaxPrefixLen),
   resolve : BOOLEAN, literal : BOOLEAN, given : {TRUE}] \cup {NoBackend}

VerifierConfigs ==
  [address : SeqsUpTo(Chars, MaxAddressLen - 1),
   apiPrefix : SeqsUpTo(Chars, MaxPrefixLen - 1),
   resolve : {TRUE}, literal : BOOLEAN, given : {TRUE}] \cup {NoBackend}

\* DEFAULT_NOTARIZATION_BACKENDS and DEFAULT_VERIFICATION_BACKEND: domain
\* names resolved by the client, no prefix.
DEFAULT_NOTARIZATION_BACKENDS ==
  << [address |-> <<"a">>, apiPrefix |-> <<>>, resolve |-> TRUE, literal |-> FALSE],
     [address |-> <<"a", "a">>, apiPrefix |-> <<>>, resolve |-> TRUE, literal |-> FALSE] >>

DEFAULT_VERIFICATION_BACKEND ==
  [address |-> <<"a">>, apiPrefix |-> <<>>, resolve |-> TRUE, literal |-> FALSE]

DEFAULT_FETCH_OPTIONS ==
  [cache |-> "no-store", mode |-> "cors", redirect |-> "follow", referrer |-> "",
   keepalive |-> FALSE]

\* Backends whose address and prefix are long enough for a blank to stand
\* between a letter and a trailing slash.
LongConfigs ==
  [address : SeqsUpTo(Chars, MaxUrlLen), apiPrefix : SeqsUpTo(Chars, MaxPrefixLen),
   resolve : {TRUE}, literal : {FALSE}, given : {TRUE}]

\* A ClientConfig with a notarizer, with a verifier, or with the same backend
\* as both.
ClientConfigs ==
  {[notarizer |-> x, verifier |-> NoBackend] : x \in LongConfigs \cup {NoBackend}}
    \cup {[notarizer |-> NoBackend, verifier |-> x] : x \in LongConfigs}
    \cup {[notarizer |-> x, verifier |-> x] : x \in LongConfigs}

\* ------------------------------------------------------------------ state

VARIABLES
  numBackends,    \* this.#oracleBackends.length
  isIP,           \* per backend: net.isIP(info.address) !== 0
  resolve,        \* per backend: info.resolve
  verifierLookup, \* the same for this.#verifier
  conf,           \* the ClientConfig the constructor was given
  oracleBackends, \* this.#oracleBackends: address and apiPrefix as stored
  verifier,       \* this.#verifier: address and apiPrefix as stored
  call,           \* the public method in progress
  options,        \* its NotarizationOptions
  max,            \* getAttestedRandom's upper bound (<<>> in other calls)
  pc,             \* where the call's async function stands
  err,            \* the error the call threw (NoError while none)
  errorReasons,   \* the failures of branches that the thrown error reports
  aborted,        \* the AbortSignal of the fan-out has fired
  signals,        \* the AbortSignals the call created, and the one each stage hands to fetch
  inFlight,       \* <<backend, address>>: requests on the wire, unanswered
  wire,           \* the options of every request written: backend, host, servername, headers
  initHeaders,    \* per backend: init.headers of its configuration, name and value in order
  resolution,     \* per backend: the state of getOrResolveFullAddress
  lookups,        \* per backend: calls of dns.resolve4 made so far
  ips,            \* per backend: what dns.resolve4 returned, or [info.address]
  ipAndUrl,       \* per backend: the targets getOrResolveFullAddress returned
  race,           \* per backend: the state of its Promise.any
  rejections,     \* per backend: rejections its Promise.any has collected
  winner,         \* per backend: the address whose response the race took
  settleOrder,    \* backends in the order their races settled
  arrivals,       \* per backend: the fetches that settled, in that order
  request,        \* what requestBackendMesh sends to every address
  responses,      \* what requestBackendMesh returned
  settled,        \* the interpreted responses (settledResult), one per response
  attestations,   \* what settleAttestationResponses returned
  vInFlight,      \* addresses of the verifier with a request on the wire
  vResolution,    \* verifier: the state of getOrResolveFullAddress
  vIpCount,       \* verifier: how many addresses it resolved to
  vRace,          \* verifier: the state of the Promise.any of verifyReports
  vRejections,    \* verifier: rejections that Promise.any has collected
  verifyRequests, \* /verify requests written to the network
  reports,        \* the reports member of the body of the /verify request
  verifierBody,   \* the verifier's answer as verifyReports read it
  result          \* what the call returned

vars ==
  <<numBackends, isIP, resolve, verifierLookup, conf, oracleBackends, verifier,
    initHeaders, call, options, max, pc, err, errorReasons, aborted, signals,
    inFlight, wire, lookups,
    resolution, ips, ipAndUrl, race, rejections, winner, settleOrder, arrivals,
    request, responses, settled, attestations, vInFlight, vResolution, vIpCount,
    vRace, vRejections, verifyRequests, reports, verifierBody, result>>

Backends == 1..numBackends

\* Addresses: 0 is info.address, the configured address of the backend itself,
\* 1..MaxIps are the addresses dns.resolve4 may return.
Ips == 0..MaxIps

\* net.isIP(info.address) === 0 && info.resolve
needsLookup == [b \in Backends |-> ~isIP[b] /\ resolve[b]]

ipCount == [b \in Backends |-> Len(ipAndUrl[b])]

\* No AbortSignal created; 0 is the undefined signal of a stage.
NoSignals == [created |-> <<>>, mesh |-> 0, verify |-> 0]

NoVerifierBody == [status |-> 0, parses |-> FALSE, validReports |-> <<>>]

NoRequest ==
  [method |-> "", path |-> "", query |-> <<>>, body |-> FALSE, debugRequest |-> FALSE]

NoConfig == [notarizer |-> NoBackend, verifier |-> NoBackend]

Stored(backend) == [address |-> backend.address, apiPrefix |-> backend.apiPrefix]

\* The backends are stored as the defaults are: a host name and no prefix.
StoredDefaults ==
  /\ conf = NoConfig
  /\ initHeaders = [b \in 1..numBackends |-> <<>>]
  /\ oracleBackends = [b \in 1..numBackends |-> Stored(DEFAULT_VERIFICATION_BACKEND)]
  /\ verifier = Stored(DEFAULT_VERIFICATION_BACKEND)

\* No request made, nothing resolved, nothing received, nothing thrown.
NothingRequested ==
  /\ max = <<>>
  /\ err = [class |-> "", message |-> ""]
  /\ errorReasons = {}
  /\ aborted = FALSE
  /\ signals = NoSignals
  /\ inFlight = {}
  /\ wire = {}
  /\ resolution = [b \in 1..numBackends |-> "idle"]
  /\ lookups = [b \in 1..numBackends |-> 0]
  /\ ips = [b \in 1..numBackends |-> <<>>]
  /\ ipAndUrl = [b \in 1..numBackends |-> <<>>]
  /\ race = [b \in 1..numBackends |-> "idle"]
  /\ rejections = [b \in 1..numBackends |-> 0]
  /\ winner = [b \in 1..numBackends |-> 0]
  /\ settleOrder = <<>>
  /\ arrivals = [b \in 1..numBackends |-> <<>>]
  /\ request = NoRequest
  /\ responses = <<>>
  /\ settled = <<>>
  /\ vInFlight = {}
  /\ vResolution = "idle"
  /\ vIpCount = 0
  /\ vRace = "idle"
  /\ vRejections = 0
  /\ verifyRequests = 0
  /\ reports = <<>>
  /\ verifierBody = NoVerifierBody
  /\ result = <<>>

\* The state after new OracleClient(config), no call made yet.
Constructed ==
  /\ StoredDefaults
  /\ call = "none"
  /\ options = [dataShouldMatch |-> TRUE, timeout |-> 0, maxTimeDeviation |-> NoDeviation]
  /\ pc = "idle"
  /\ attestations = <<>>
  /\ NothingRequested

\* Notarizers configured by name or by literal IP, the verifier by literal IP.
InitResolved ==
  /\ numBackends \in 1..MaxBackends
  /\ isIP \in [1..numBackends -> BOOLEAN]
  /\ resolve = [b \in 1..numBackends |-> TRUE]
  /\ verifierLookup = FALSE
  /\ Constructed

\* Notarizers configured by name or by literal IP, each with headers of its
\* own in init.
InitFetch ==
  /\ numBackends \in 1..MaxBackends
  /\ isIP \in [1..numBackends -> BOOLEAN]
  /\ resolve = [b \in 1..numBackends |-> TRUE]
  /\ verifierLookup = FALSE
  /\ conf = NoConfig
  /\ initHeaders \in [1..numBackends -> CallerHeaders]
  /\ oracleBackends = [b \in 1..numBackends |-> Stored(DEFAULT_VERIFICATION_BACKEND)]
  /\ verifier = Stored(DEFAULT_VERIFICATION_BACKEND)
  /\ call = "none"
  /\ options = [dataShouldMatch |-> TRUE, timeout |-> 0, maxTimeDeviation |-> NoDeviation]
  /\ pc = "idle"
  /\ attestations = <<>>
  /\ NothingRequested

\* Notarizers and verifier configured by literal IP, and handleAttestations
\* about to run on a list of any length from none to one more than there are
\* notarizers.
InitValidator ==
  /\ numBackends \in 1..MaxBackends
  /\ isIP = [b \in 1..numBackends |-> TRUE]
  /\ resolve = [b \in 1..numBackends |-> TRUE]
  /\ verifierLookup = FALSE
  /\ StoredDefaults
  /\ call = "notarize"
  /\ options \in ValidatorOptions
  /\ pc = "validating"
  /\ attestations \in AttestationLists(numBackends + 1)
  /\ NothingRequested

\* Any number of notarizers, each a domain name to resolve or a literal IP.
Init ==
  /\ numBackends \in 1..MaxBackends
  /\ isIP \in [1..numBackends -> BOOLEAN]
  /\ resolve = [b \in 1..numBackends |-> TRUE]
  /\ verifierLookup \in BOOLEAN
  /\ Constructed

\* Notarizers configured in every way: by name or by literal IP, with or
\* without resolve.
InitResolver ==
  /\ numBackends \in 1..MaxBackends
  /\ isIP \in [1..numBackends -> BOOLEAN]
  /\ resolve \in [1..numBackends -> BOOLEAN]
  /\ verifierLookup = FALSE
  /\ Constructed

\* Notarizers and verifier configured by literal IP.
InitPayload ==
  /\ numBackends \in 1..MaxBackends
  /\ isIP = [b \in 1..numBackends |-> TRUE]
  /\ resolve = [b \in 1..numBackends |-> TRUE]
  /\ verifierLookup = FALSE
  /\ Constructed

\* No client yet.
NotConstructed ==
  /\ numBackends = 0
  /\ isIP = <<>>
  /\ resolve = <<>>
  /\ verifierLookup = FALSE
  /\ oracleBackends = <<>>
  /\ initHeaders = <<>>
  /\ verifier = Stored(NoBackend)
  /\ call = "none"
  /\ options = [dataShouldMatch |-> TRUE, timeout |-> 0, maxTimeDeviation |-> NoDeviation]
  /\ max = <<>>
  /\ pc = "new"
  /\ err = [class |-> "", message |-> ""]
  /\ errorReasons = {}
  /\ aborted = FALSE
  /\ signals = NoSignals
  /\ inFlight = {}
  /\ wire = {}
  /\ resolution = <<>>
  /\ lookups = <<>>
  /\ ips = <<>>
  /\ ipAndUrl = <<>>
  /\ race = <<>>
  /\ rejections = <<>>
  /\ winner = <<>>
  /\ settleOrder = <<>>
  /\ arrivals = <<>>
  /\ request = NoRequest
  /\ responses = <<>>
  /\ settled = <<>>
  /\ attestations = <<>>
  /\ vInFlight = {}
  /\ vResolution = "idle"
  /\ vIpCount = 0
  /\ vRace = "idle"
  /\ vRejections = 0
  /\ verifyRequests = 0
  /\ reports = <<>>
  /\ verifierBody = NoVerifierBody
  /\ result = <<>>

\* Before new OracleClient(config): the configuration the caller passes, with
\* or without a notarizer and a verifier, and nothing stored yet.
InitConstructor ==
  /\ conf \in [notarizer : NotarizerConfigs, verifier : VerifierConfigs]
  /\ NotConstructed

\* Before the constructor ran, on the configurations with the longer strings.
InitConfig ==
  /\ conf \in ClientConfigs
  /\ NotConstructed

\* ----------------------------------------------------------- pure helpers

\* String.prototype.trim(): the string without its leading and trailing blanks.
trim(s) ==
  LET inked == {i \in 1..Len(s) : s[i] # " "}
  IN  IF inked = {} THEN <<>>
      ELSE SubSeq(s, CHOOSE i \in inked : \A j \in inked : i <= j,
                     CHOOSE i \in inked : \A j \in inked : j <= i)

\* res.replace(/^\/+/, '/'): the leading run of slashes becomes one slash.
ReplaceLeadingSlashes(s) ==
  LET run == Cardinality({i \in 1..Len(s) : \A j \in 1..i : s[j] = "/"})
  IN  IF run = 0 THEN s ELSE <<"/">> \o SubSeq(s, run + 1, Len(s))

\* res.replace(/\/+$/, ''), and the loop of trimUrl: the trailing run of
\* slashes is removed.
RemoveTrailingSlashes(s) ==
  LET run == Cardinality({i \in 1..Len(s) : \A j \in i..Len(s) : s[j] = "/"})
  IN  SubSeq(s, 1, Len(s) - run)

StartsWithSlash(s) == Len(s) > 0 /\ s[1] = "/"

EndsWithSlash(s) == Len(s) > 0 /\ s[Len(s)] = "/"

trimPath(path) ==
  LET res == trim(path)
      replaced == RemoveTrailingSlashes(ReplaceLeadingSlashes(res))
  IN  IF res = <<>> THEN res
      ELSE IF StartsWithSlash(replaced) THEN replaced ELSE <<"/">> \o replaced

trimUrl(url) == RemoveTrailingSlashes(trim(url))

NoError == [class |-> "", message |-> ""]

Error(class, message) == [class |-> class, message |-> message]

\* Number.prototype.toString(): the decimal digits of a non-negative integer,
\* most significant first.
RECURSIVE toString(_)
toString(n) == IF n < 10 THEN <<n>> ELSE Append(toString(n \div 10), n % 10)

\* The order of two strings of digits by UTF-16 code units: at the first
\* position where they differ the smaller digit, or the end of the string,
\* comes first.
StringLess(s, t) ==
  \E k \in 1..Len(t) :
    /\ \A j \in 1..(k - 1) : j <= Len(s) /\ s[j] = t[j]
    /\ (k > Len(s) \/ s[k] < t[k])

\* Array.prototype.sort() called with no comparator: elements are ordered by
\* their string conversions.
SortCompareLess(x, y) == StringLess(toString(x), toString(y))

RECURSIVE Insert(_, _)
Insert(x, sorted) ==
  IF sorted = <<>> THEN <<x>>
  ELSE IF SortCompareLess(x, Head(sorted)) THEN <<x>> \o sorted
  ELSE <<Head(sorted)>> \o Insert(x, Tail(sorted))

RECURSIVE sort(_)
sort(a) == IF a = <<>> THEN <<>> ELSE Insert(a[Len(a)], sort(SubSeq(a, 1, Len(a) - 1)))

\* BigInt values as binary digits, most significant first, <<>> for 0n.
Zeros(n) == [i \in 1..n |-> 0]

BigShiftLeft(x, n) == IF x = <<>> THEN x ELSE x \o Zeros(n)

BigLess(x, y) ==
  \/ Len(x) < Len(y)
  \/ /\ Len(x) = Len(y)
     /\ StringLess(x, y)

BigLessEq(x, y) == x = y \/ BigLess(x, y)

\* The upper bounds a caller may pass to getAttestedRandom.
RandomInputs ==
  { <<>>, <<1>>, <<1, 0>>,
    <<1>> \o Zeros(128),
    <<1>> \o Zeros(127) \o <<1>>,
    <<1, 0>> \o Zeros(128) }

\* (mutant) the limit is 2n << 128n.
InvalidUpperBound_Shift128(upper) ==
  BigLessEq(upper, <<1>>) \/ BigLess(BigShiftLeft(<<1, 0>>, 128), upper)

\* max <= 1n || max > (2n << 127n)
InvalidUpperBound(upper) ==
  BigLessEq(upper, <<1>>) \/ BigLess(BigShiftLeft(<<1, 0>>, 127), upper)

\* ------------------------------------------------- the program's functions

\* The failure of one branch of a call: the resolution of a backend, the
\* request to one of its addresses, the interpretation of its response.
\* Backend 0 is the verifier; a failed resolution has no address and says 0.
Reason(stage, b, i) ==
  [stage |-> stage, backend |-> b, ip |-> i, class |-> "Error", errors |-> {}]

\* The AggregateError of a backend whose Promise.any rejected: its errors
\* member holds the failure of every address.
Rejection(b) ==
  [stage |-> "transport", backend |-> b, ip |-> 0, class |-> "AggregateError",
   errors |-> {Reason("transport", b, ipAndUrl[b][k]) : k \in 1..Len(ipAndUrl[b])}]

\* The error that handleAttestationResponse or handleInfoResponse threw.
InterpretationError(b, class) ==
  [stage |-> "interpretation", backend |-> b, ip |-> 0, class |-> class, errors |-> {}]

\* JSON.stringify(reasons) in the message of the error thrown: of an object it
\* writes the own enumerable properties. An Error or an AggregateError has none
\* (message, cause and errors are not enumerable) and is written as {}; the
\* fields of AttestationError and DebugAttestationError are written.
Stringified(reasons) ==
  {r \in reasons : r.class \in {"AttestationError", "DebugAttestationError"}}

\* BigInt.prototype.toString(10): the decimal digits, most significant first.
\* The binary digits are taken sixteen at a time; the decimal digits are
\* built least significant first.
RECURSIVE BitsValue(_)
BitsValue(x) ==
  IF x = <<>> THEN 0 ELSE 2 * BitsValue(SubSeq(x, 1, Len(x) - 1)) + x[Len(x)]

RECURSIVE DigitsOf(_)
DigitsOf(n) == IF n = 0 THEN <<>> ELSE <<n % 10>> \o DigitsOf(n \div 10)

\* r * 65536 + c
RECURSIVE TimesPlus(_, _)
TimesPlus(r, c) ==
  IF r = <<>> THEN DigitsOf(c)
  ELSE LET v == 65536 * Head(r) + c IN <<v % 10>> \o TimesPlus(Tail(r), v \div 10)

RECURSIVE Decimal(_)
Decimal(x) ==
  IF Len(x) <= 16 THEN DigitsOf(BitsValue(x))
  ELSE TimesPlus(Decimal(SubSeq(x, 1, Len(x) - 16)),
                 BitsValue(SubSeq(x, Len(x) - 15, Len(x))))

BigToString(x) ==
  IF x = <<>> THEN <<0>>
  ELSE LET r == Decimal(x) IN [i \in 1..Len(r) |-> r[Len(r) + 1 - i]]

\* obj[name] = value on an object written as its own properties in insertion
\* order: an existing property keeps its place, a new one goes last. Property
\* names are compared as they are written, upper and lower case apart.
Assign(obj, name, value) ==
  IF \E k \in 1..Len(obj) : obj[k][1] = name
    THEN [k \in 1..Len(obj) |-> IF obj[k][1] = name THEN <<name, value>> ELSE obj[k]]
    ELSE Append(obj, <<name, value>>)

\* headers of the fetchOptions of requestBackendMesh: the headers of the
\* backend's init, then Content-Type.
fetchOptionsHeaders(b) == Assign(initHeaders[b], "Content-Type", <<"j">>)

\* reqObj of fetch: the address to dial, the TLS server name, and the headers
\* of init with host set to the backend's address.
reqObj(b, i) ==
  [backend |-> b, host |-> i, servername |-> oracleBackends[b].address,
   headers |-> Assign(fetchOptionsHeaders(b), "host", oracleBackends[b].address)]

\* Header names are case-insensitive for http.request.
LowerCase(name) == IF name = "Host" THEN "host" ELSE name

\* The Host header http.request writes for the headers object it is given:
\* it sets the headers one by one in the order of the object, under the
\* lower-cased name, so that the last Host or host property is the one sent.
HostHeader(headers) ==
  LET hosts == {k \in 1..Len(headers) : LowerCase(headers[k][1]) = "host"}
  IN  headers[CHOOSE k \in hosts : \A j \in hosts : j <= k][2]

\* The method, the resource and the body of the requests of the call in
\* progress: createAttestation posts attestReq to /notarize, enclavesInfo gets
\* /info, getAttestedRandom gets /random?max=<max>.
MeshRequest ==
  CASE call = "notarize" ->
         [method |-> "POST", path |-> "/notarize", query |-> <<>>, body |-> TRUE,
          debugRequest |-> FALSE]
    [] call = "testSelector" ->
         [method |-> "POST", path |-> "/notarize", query |-> <<>>, body |-> TRUE,
          debugRequest |-> TRUE]
    [] call = "enclavesInfo" ->
         [method |-> "GET", path |-> "/info", query |-> <<>>, body |-> FALSE,
          debugRequest |-> FALSE]
    [] call = "getAttestedRandom" ->
         [method |-> "GET", path |-> "/random", query |-> BigToString(max),
          body |-> FALSE, debugRequest |-> FALSE]

Range(f) == {f[i] : i \in DOMAIN f}

Indices(a) == [i \in 1..Len(a) |-> i]

\* (mutant) a debug error without regard to the shape of the body.
handleAttestationResponse_AnyShape(debug, content) ==
  IF ~content.parses THEN "Error"
  ELSE IF content.status # 200
    THEN IF debug THEN "DebugAttestationError" ELSE "AttestationError"
  ELSE "ok"

\* handleAttestationResponse: what one delivered response is interpreted as,
\* the class of the error thrown or "ok" for a returned payload.
handleAttestationResponse(debug, content) ==
  IF ~content.parses THEN "Error"
  ELSE IF content.status # 200
    THEN IF debug /\ content.responseBody THEN "DebugAttestationError"
         ELSE "AttestationError"
  ELSE "ok"

\* (mutant) a parsed body is an info payload whatever the status.
handleInfoResponse_AnyStatus(content) ==
  IF ~content.parses THEN "Error" ELSE "ok"

\* handleInfoResponse, in the same terms.
handleInfoResponse(content) ==
  IF ~content.parses THEN "Error"
  ELSE IF content.status # 200 THEN "AttestationError"
  ELSE "ok"

\* new URL(resp.url).origin, where resp.url is getFullAddress(backend, path).url:
\* the scheme and the configured address of the backend, not the address dialled.
origin(b) == [backend |-> b, address |-> oracleBackends[b].address]

\* The enclaveUrl member of an object that has none.
NoOrigin == [backend |-> 0, address |-> <<>>]

\* The enclaveUrl of what the interpreter returns for a 200 body: of
\* { enclaveUrl: oracleBackendURL.origin, ...jsonBody }, where a member of the
\* body replaces the one written before the spread, and of jsonBody itself
\* for a debug request.
enclaveUrl(b, content) ==
  IF "enclaveUrl" \in DOMAIN content THEN content.enclaveUrl
  ELSE IF call = "testSelector" THEN NoOrigin
  ELSE origin(b)

\* (mutant) the responses in the order in which the races settled.
SettledResponses_ArrivalOrder(races, winners, order) ==
  LET fulfilled(b) == races[b] = "fulfilled"
      kept == SelectSeq(order, fulfilled)
  IN  [k \in 1..Len(kept) |-> [backend |-> kept[k], ip |-> winners[kept[k]]]]

\* Promise.allSettled over the backends, then forEach over its results: the
\* fulfilled races in the order of backendMesh, whatever the order in which
\* they settled.
SettledResponses(races, winners, order) ==
  LET fulfilled(b) == races[b] = "fulfilled"
      kept == SelectSeq([b \in 1..numBackends |-> b], fulfilled)
  IN  [k \in 1..Len(kept) |-> [backend |-> kept[k], ip |-> winners[kept[k]]]]

\* Promise.allSettled over the interpretation of every response: per
\* response, in the order of the responses, what was read and how it settled.
SettledResult(resps, contents, outcomes) ==
  [k \in 1..Len(resps) |->
     [backend |-> resps[k].backend, content |-> contents[k], outcome |-> outcomes[k]]]

\* (mutant) two equal payloads are returned once.
SettledAttestations_Deduplicated(settledResult) ==
  LET good(i) ==
        /\ settledResult[i].outcome = "ok"
        /\ \A j \in 1..(i - 1) :
             settledResult[j].outcome = "ok"
               => settledResult[j].content # settledResult[i].content
      kept == SelectSeq(Indices(settledResult), good)
  IN  [k \in 1..Len(kept) |->
         [backend |-> settledResult[kept[k]].backend,
          enclaveUrl |-> enclaveUrl(settledResult[kept[k]].backend,
                                    settledResult[kept[k]].content),
          attestationData |-> settledResult[kept[k]].content.attestationData,
          timestamp |-> settledResult[kept[k]].content.timestamp]]

\* (mutant) the payloads before the first rejected result, as if the first
\* failure ended the interpretation.
SettledAttestations_UntilFirstFailure(settledResult) ==
  LET good(i) == \A j \in 1..i : settledResult[j].outcome = "ok"
      kept == SelectSeq(Indices(settledResult), good)
  IN  [k \in 1..Len(kept) |->
         [backend |-> settledResult[kept[k]].backend,
          enclaveUrl |-> enclaveUrl(settledResult[kept[k]].backend,
                                    settledResult[kept[k]].content),
          attestationData |-> settledResult[kept[k]].content.attestationData,
          timestamp |-> settledResult[kept[k]].content.timestamp]]

\* forEach over the settled results: the payloads of the fulfilled ones, in
\* the order of the responses.
SettledAttestations(settledResult) ==
  LET good(i) == settledResult[i].outcome = "ok"
      kept == SelectSeq(Indices(settledResult), good)
  IN  [k \in 1..Len(kept) |->
         [backend |-> settledResult[kept[k]].backend,
          enclaveUrl |-> enclaveUrl(settledResult[kept[k]].backend,
                                    settledResult[kept[k]].content),
          attestationData |-> settledResult[kept[k]].content.attestationData,
          timestamp |-> settledResult[kept[k]].content.timestamp]]

\* forEach over the settled results: the reasons of the rejected ones.
SettledErrors(settledResult) ==
  {InterpretationError(settledResult[k].backend, settledResult[k].outcome) :
     k \in {j \in 1..Len(settledResult) : settledResult[j].outcome # "ok"}}

\* (mutant) only the empty list is refused.
UnexpectedNumber_OnlyZero(atts) == Len(atts) = 0

\* handleAttestations, the three client side checks.
UnexpectedNumber(atts) == Len(atts) = 0 \/ Len(atts) > numBackends

\* (mutant) the loop stops after the second attestation.
DataMismatch_OnlySecond(atts, opts) ==
  /\ opts.dataShouldMatch
  /\ Len(atts) >= 2
  /\ atts[2].attestationData # atts[1].attestationData

DataMismatch(atts, opts) ==
  /\ opts.dataShouldMatch
  /\ \E i \in 2..Len(atts) : atts[i].attestationData # atts[1].attestationData

\* (mutant) an undefined maxTimeDeviation is read as no deviation allowed.
TimestampsDeviate_UndefinedIsZero(atts, opts) ==
  LET attestationTimestamps == sort([i \in 1..Len(atts) |-> atts[i].timestamp])
      allowed == IF opts.maxTimeDeviation = NoDeviation THEN 0 ELSE opts.maxTimeDeviation
  IN  attestationTimestamps[Len(atts)] - attestationTimestamps[1] > allowed

TimestampsDeviate(atts, opts) ==
  /\ opts.maxTimeDeviation # NoDeviation
  /\ LET attestationTimestamps == sort([i \in 1..Len(atts) |-> atts[i].timestamp])
     IN  attestationTimestamps[Len(atts)] - attestationTimestamps[1] > opts.maxTimeDeviation

ValidationError(atts, opts) ==
  IF UnexpectedNumber(atts)
    THEN Error("AttestationIntegrityError", "unexpected number of attestations")
  ELSE IF DataMismatch(atts, opts)
    THEN Error("AttestationIntegrityError", "attestation data mismatch")
  ELSE IF TimestampsDeviate(atts, opts)
    THEN Error("AttestationIntegrityError", "attestation timestamps deviate too much")
  ELSE NoError

\* (mutant) validReports.map((index) => attestations[index]), the entries
\* that are no position of the batch left out.
validAttestations_PerEntry(atts, validReports) ==
  LET position(i) == i \in 0..(Len(atts) - 1)
      kept == SelectSeq(validReports, position)
  IN  [k \in 1..Len(kept) |-> atts[kept[k] + 1]]

\* (mutant) positions counted from 1.
validAttestations_OneBased(atts, validReports) ==
  LET included(i) == i \in Range(validReports)
      kept == SelectSeq(Indices(atts), included)
  IN  [k \in 1..Len(kept) |-> atts[kept[k]]]

\* attestations.filter((_, index) => jsonBody.validReports.includes(index))
validAttestations(atts, validReports) ==
  LET included(i) == (i - 1) \in Range(validReports)
      kept == SelectSeq(Indices(atts), included)
  IN  [k \in 1..Len(kept) |-> atts[kept[k]]]

\* (mutant) handleAttestations returns whatever verifyReports kept.
VerificationError_NoEmptyCheck(atts, body) ==
  IF body.status # 200
    THEN Error("AttestationIntegrityError", "verification failed")
  ELSE IF ~body.parses
    THEN Error("Error", "verification failed")
  ELSE IF Len(body.validReports) = 0
    THEN Error("AttestationIntegrityError", "verification failed for all reports")
  ELSE NoError

\* verifyReports from the verifier's response on, and the last check of
\* handleAttestations: the error thrown, or NoError.
VerificationError(atts, body) ==
  IF body.status # 200
    THEN Error("AttestationIntegrityError", "verification failed")
  ELSE IF ~body.parses
    THEN Error("Error", "verification failed")
  ELSE IF Len(body.validReports) = 0
    THEN Error("AttestationIntegrityError", "verification failed for all reports")
  ELSE IF Len(validAttestations(atts, body.validReports)) = 0
    THEN Error("AttestationIntegrityError", "failed to verify reports")
  ELSE NoError

\* ---------------------------------------------------------------- actions

\* (mutant) the error is recorded and the async function carries on.
ThrowReasons_Resume(e, reasons) ==
  /\ pc' = pc
  /\ err' = e
  /\ errorReasons' = reasons

\* throw e, an error that reports the failures of the given branches.
ThrowReasons(e, reasons) ==
  /\ pc' = "failed"
  /\ err' = e
  /\ errorReasons' = reasons

Throw(e) == ThrowReasons(e, {})

Config ==
  <<numBackends, isIP, resolve, verifierLookup, conf, oracleBackends, verifier, initHeaders>>

\* { ...base, ...over }: the members of both, those of over where both have one.
Spread(base, over) ==
  [f \in DOMAIN base \cup DOMAIN over |-> IF f \in DOMAIN over THEN over[f] ELSE base[f]]

\* conf.notarizer after conf.notarizer.init = { ...DEFAULT_FETCH_OPTIONS,
\* ...conf.notarizer.init } and apiPrefix = apiPrefix || '': conf is a shallow
\* copy of config, so this is the object the caller passed.
WithInit(backend) ==
  Spread(backend,
         [init |-> Spread(DEFAULT_FETCH_OPTIONS,
                          IF "init" \in DOMAIN backend THEN backend.init ELSE <<>>)])

\* this.#verifier.address = trimUrl(...); this.#verifier.apiPrefix = trimPath(...):
\* this.#verifier is conf.verifier, the object the caller passed.
Sanitized(backend) ==
  Spread(backend, [address |-> trimUrl(backend.address),
                   apiPrefix |-> trimPath(backend.apiPrefix)])

\* The caller's config object after a construction from it.
configAfter ==
  [notarizer |-> IF conf.notarizer.given THEN WithInit(conf.notarizer)
                 ELSE conf.notarizer,
   verifier |-> IF conf.verifier.given THEN Sanitized(WithInit(conf.verifier))
                ELSE conf.verifier]

\* new OracleClient(config): the configured notarizer or the default ones, the
\* configured verifier or the default one, each stored with its address
\* through trimUrl and its apiPrefix through trimPath.
constructor ==
  LET backends == IF conf.notarizer.given THEN <<conf.notarizer>>
                  ELSE DEFAULT_NOTARIZATION_BACKENDS
      chosen == IF conf.verifier.given THEN conf.verifier ELSE DEFAULT_VERIFICATION_BACKEND
      n == Len(backends)
  IN
    /\ pc = "new"
    /\ pc' = "idle"
    /\ numBackends' = n
    /\ oracleBackends' = [b \in 1..n |->
                           [address |-> trimUrl(backends[b].address),
                            apiPrefix |-> trimPath(backends[b].apiPrefix)]]
    /\ verifier' = [address |-> trimUrl(chosen.address),
                    apiPrefix |-> trimPath(chosen.apiPrefix)]
    /\ initHeaders' = [b \in 1..n |-> <<>>]
    /\ isIP' = [b \in 1..n |-> backends[b].literal]
    /\ resolve' = [b \in 1..n |-> backends[b].resolve]
    /\ verifierLookup' = (~chosen.literal /\ chosen.resolve)
    /\ resolution' = [b \in 1..n |-> "idle"]
    /\ lookups' = [b \in 1..n |-> 0]
    /\ ips' = [b \in 1..n |-> <<>>]
    /\ ipAndUrl' = [b \in 1..n |-> <<>>]
    /\ race' = [b \in 1..n |-> "idle"]
    /\ rejections' = [b \in 1..n |-> 0]
    /\ winner' = [b \in 1..n |-> 0]
    /\ arrivals' = [b \in 1..n |-> <<>>]
    /\ conf' = configAfter
    /\ UNCHANGED <<call, options, max, err, errorReasons, aborted, signals,
                   inFlight, wire, settleOrder, request, responses, settled,
                   attestations, vInFlight, vResolution, vIpCount, vRace,
                   vRejections, verifyRequests, reports, verifierBody, result>>

\* new OracleClient(config) once more, from the config object of the client
\* already constructed. The state is that of the first client: its notarizers
\* are copies, its verifier is conf.verifier or DEFAULT_VERIFICATION_BACKEND
\* itself, which the second construction sanitizes again.
constructor_again ==
  LET chosen == IF conf.verifier.given THEN conf.verifier ELSE DEFAULT_VERIFICATION_BACKEND
  IN
    /\ pc = "idle"
    /\ call = "none"
    /\ conf' = configAfter
    /\ verifier' = [address |-> trimUrl(chosen.address),
                    apiPrefix |-> trimPath(chosen.apiPrefix)]
    /\ UNCHANGED <<numBackends, isIP, resolve, verifierLookup, oracleBackends,
                   initHeaders, pc, call, options, max, err, errorReasons, aborted,
                   signals, inFlight, wire, lookups, resolution, ips, ipAndUrl, race,
                   rejections, winner, settleOrder, arrivals, request, responses,
                   settled, attestations, vInFlight, vResolution, vIpCount, vRace,
                   vRejections, verifyRequests, reports, verifierBody, result>>

FanOutLocals ==
  <<resolution, ips, ipAndUrl, race, rejections, winner, settleOrder, arrivals, responses>>

VerifierLocals == <<vResolution, vIpCount, vRace, vRejections, verifierBody>>

\* (mutant) no address without a lookup.
OwnAddress_None == <<>>

\* let ips = [info.address]
OwnAddress == <<0>>

\* (mutant) the targets in ascending order of address.
Targets_Sorted(addresses) ==
  LET S == {addresses[k] : k \in 1..Len(addresses)}
  IN  [k \in 1..Cardinality(S) |->
         CHOOSE a \in S : Cardinality({x \in S : x < a}) = k - 1]

\* ips.map((ip) => ({ip, url, path})): one target per address, in the order of
\* the addresses. A target is written as its address.
Targets(addresses) == [k \in 1..Len(addresses) |-> addresses[k]]

\* let abortSignal; if (options?.timeout && options?.timeout > 0) abortSignal =
\* AbortSignal.timeout(options?.timeout): the signal requestBackendMesh is given.
createSignal(timeout) ==
  signals' = IF timeout > 0
               THEN [signals EXCEPT !.created = Append(@, timeout),
                                    !.mesh = Len(signals.created) + 1]
               ELSE signals

\* const abortSignal = AbortSignal.timeout(timeout) of verifyReports, called
\* with options.timeout || DEFAULT_TIMEOUT_MS: the signal of its fetchOptions.
verifyReports_signal(timeout) ==
  signals' = [signals EXCEPT
                !.created = Append(@, IF timeout = 0 THEN DEFAULT_TIMEOUT_MS ELSE timeout),
                !.verify = Len(signals.created) + 1]

\* resolveBackends is entered: getOrResolveFullAddress of a backend that needs
\* no lookup returns [address] at once, the others wait for dns.resolve4.
BeginResolve ==
  /\ pc' = "resolving"
  /\ resolution' = [b \in Backends |-> IF needsLookup[b] THEN "pending" ELSE "resolved"]
  /\ lookups' = [b \in Backends |-> IF needsLookup[b] THEN lookups[b] + 1 ELSE lookups[b]]
  /\ ips' = [b \in Backends |-> IF needsLookup[b] THEN <<>> ELSE OwnAddress]
  /\ ipAndUrl' = [b \in Backends |-> IF needsLookup[b] THEN <<>> ELSE Targets(OwnAddress)]

\* notarize -> createAttestation, up to the await of resolveBackends.
notarize(Opts) ==
  \E opts \in Opts :
    /\ pc = "idle"
    /\ call' = "notarize"
    /\ options' = opts
    /\ createSignal(opts.timeout)
    /\ BeginResolve
    /\ UNCHANGED <<Config, request, max, err, errorReasons, aborted, inFlight, wire,
                   race, rejections, winner, settleOrder, arrivals, responses,
                   settled, attestations, vInFlight, VerifierLocals,
                   verifyRequests, reports, result>>

\* testSelector -> createAttestation with debug, up to the await of
\* resolveBackends.
testSelector(Ts) ==
  \E timeout \in Ts :
    /\ pc = "idle"
    /\ call' = "testSelector"
    /\ options' = [options EXCEPT !.timeout = timeout]
    /\ createSignal(timeout)
    /\ BeginResolve
    /\ UNCHANGED <<Config, request, max, err, errorReasons, aborted, inFlight, wire,
                   race, rejections, winner, settleOrder, arrivals, responses,
                   settled, attestations, vInFlight, VerifierLocals,
                   verifyRequests, reports, result>>

\* enclavesInfo, up to the await of resolveBackends.
enclavesInfo(Ts) ==
  \E timeout \in Ts :
    /\ pc = "idle"
    /\ call' = "enclavesInfo"
    /\ options' = [options EXCEPT !.timeout = timeout]
    /\ createSignal(timeout)
    /\ BeginResolve
    /\ UNCHANGED <<Config, request, max, err, errorReasons, aborted, inFlight, wire,
                   race, rejections, winner, settleOrder, arrivals, responses,
                   settled, attestations, vInFlight, VerifierLocals,
                   verifyRequests, reports, result>>

\* getAttestedRandom, up to the await of resolveBackends.
getAttestedRandom(Inputs, Opts) ==
  \E upper \in Inputs, opts \in Opts :
    /\ pc = "idle"
    /\ call' = "getAttestedRandom"
    /\ options' = opts
    /\ IF InvalidUpperBound(upper)
         THEN /\ Throw(Error("Error", "invalid upper bound for random"))
              /\ UNCHANGED <<signals, resolution, lookups, ips, ipAndUrl>>
         ELSE /\ createSignal(opts.timeout)
              /\ BeginResolve
              /\ UNCHANGED <<err, errorReasons>>
    /\ max' = upper
    /\ UNCHANGED <<Config, request, aborted, inFlight, wire, race, rejections, winner,
                   settleOrder, arrivals, responses, settled, attestations,
                   vInFlight, VerifierLocals, verifyRequests, reports, result>>

\* dns.resolve4 answers for one backend.
resolve_ok(b, Answers) ==
  \E answer \in Answers :
    /\ pc = "resolving"
    /\ resolution[b] = "pending"
    /\ resolution' = [resolution EXCEPT ![b] = "resolved"]
    /\ ips' = [ips EXCEPT ![b] = answer]
    /\ ipAndUrl' = [ipAndUrl EXCEPT ![b] = Targets(answer)]
    /\ UNCHANGED <<Config, lookups, request, call, options, max, pc, err, errorReasons,
                   aborted, signals, inFlight, wire, race, rejections, winner,
                   settleOrder, arrivals, responses, settled, attestations,
                   vInFlight, VerifierLocals, verifyRequests, reports, result>>

\* dns.resolve4 fails for one backend: the Promise.all of resolveBackends
\* rejects, and the await in the caller, outside its try, rethrows.
resolve_fail(b) ==
  /\ pc = "resolving"
  /\ resolution[b] = "pending"
  /\ resolution' = [resolution EXCEPT ![b] = "failed"]
  /\ ThrowReasons(Error("Error", "resolution failed"), {Reason("resolution", b, 0)})
  /\ UNCHANGED <<Config, lookups, request, call, options, max, aborted, signals,
                 inFlight, wire, ips, ipAndUrl, race, rejections, winner,
                 settleOrder, arrivals, responses, settled, attestations,
                 vInFlight, VerifierLocals, verifyRequests, reports, result>>

\* (mutant) the fan-out starts as soon as one backend is resolved.
requestBackendMesh_send_NoBarrier ==
  /\ pc = "resolving"
  /\ \E b \in Backends : resolution[b] = "resolved"
  /\ pc' = "racing"
  /\ inFlight' = inFlight \cup {r \in Backends \X Ips : r[2] \in Range(ipAndUrl[r[1]])}
  /\ wire' = wire \cup {reqObj(r[1], r[2]) : r \in inFlight' \ inFlight}
  /\ race' = [b \in Backends |-> IF ipCount[b] = 0 THEN "rejected" ELSE "pending"]
  /\ request' = MeshRequest
  /\ UNCHANGED <<Config, lookups, call, options, max, err, errorReasons, aborted,
                 signals, resolution, ips, ipAndUrl, rejections, winner,
                 settleOrder, arrivals, responses, settled, attestations,
                 vInFlight, VerifierLocals, verifyRequests, reports, result>>

\* requestBackendMesh is entered: one fetch per resolved address of every
\* backend, one Promise.any per backend.
requestBackendMesh_send ==
  /\ pc = "resolving"
  /\ \A b \in Backends : resolution[b] = "resolved"
  /\ pc' = "racing"
  /\ inFlight' = inFlight \cup {r \in Backends \X Ips : r[2] \in Range(ipAndUrl[r[1]])}
  /\ wire' = wire \cup {reqObj(r[1], r[2]) : r \in inFlight' \ inFlight}
  /\ race' = [b \in Backends |-> IF ipCount[b] = 0 THEN "rejected" ELSE "pending"]
  /\ request' = MeshRequest
  /\ UNCHANGED <<Config, lookups, call, options, max, err, errorReasons, aborted,
                 signals, resolution, ips, ipAndUrl, rejections, winner,
                 settleOrder, arrivals, responses, settled, attestations,
                 vInFlight, VerifierLocals, verifyRequests, reports, result>>

\* AbortSignal.timeout(options.timeout) fires. fetch builds its request from
\* init.method, init.headers and init.body alone, so no request sees it.
abortSignal_timeout ==
  /\ pc \notin {"idle", "done", "failed"}
  /\ options.timeout > 0
  /\ ~aborted
  /\ aborted' = TRUE
  /\ UNCHANGED <<Config, lookups, request, call, options, max, pc, err, errorReasons,
                 signals, inFlight, wire, FanOutLocals, settled, attestations,
                 vInFlight, VerifierLocals, verifyRequests, reports, result>>

\* The promise of one fetch settles. Once settleAttestationResponses has
\* returned nothing refers to the promises of the fan-out any more.
Arrived(b, i, ok, status) ==
  IF race[b] = "idle" THEN arrivals
  ELSE [arrivals EXCEPT ![b] = Append(@, [ip |-> i, ok |-> ok, status |-> status])]

\* The request has emitted 'error': there is no response and no status.
NoStatus == 0

\* (mutant) a response whose status is not 200 rejects the promise of fetch.
fetch_resolve_OkOnly(b, i, Codes) ==
  \E status \in Codes :
    /\ <<b, i>> \in inFlight
    /\ inFlight' = inFlight \ {<<b, i>>}
    /\ UNCHANGED wire
    /\ IF race[b] = "pending"
         THEN IF status \in {200, Deferred}
                THEN /\ race' = [race EXCEPT ![b] = "fulfilled"]
                     /\ winner' = [winner EXCEPT ![b] = i]
                     /\ settleOrder' = Append(settleOrder, b)
                     /\ UNCHANGED rejections
                ELSE /\ rejections' = [rejections EXCEPT ![b] = @ + 1]
                     /\ IF rejections'[b] = ipCount[b]
                          THEN /\ race' = [race EXCEPT ![b] = "rejected"]
                               /\ settleOrder' = Append(settleOrder, b)
                          ELSE UNCHANGED <<race, settleOrder>>
                     /\ UNCHANGED winner
         ELSE UNCHANGED <<race, winner, settleOrder, rejections>>
    /\ arrivals' = Arrived(b, i, status \in {200, Deferred}, status)
    /\ UNCHANGED <<Config, lookups, request, call, options, max, pc, err, errorReasons,
                   aborted, signals, resolution, ips, ipAndUrl, responses,
                   settled, attestations, vInFlight, VerifierLocals,
                   verifyRequests, reports, result>>

\* (mutant) a later response of the same backend replaces the one taken.
fetch_resolve_LastWins(b, i, Codes) ==
  \E status \in Codes :
    /\ <<b, i>> \in inFlight
    /\ inFlight' = inFlight \ {<<b, i>>}
    /\ UNCHANGED wire
    /\ IF race[b] \in {"pending", "fulfilled"}
         THEN /\ race' = [race EXCEPT ![b] = "fulfilled"]
              /\ winner' = [winner EXCEPT ![b] = i]
              /\ settleOrder' = IF race[b] = "pending" THEN Append(settleOrder, b)
                                ELSE settleOrder
         ELSE UNCHANGED <<race, winner, settleOrder>>
    /\ arrivals' = Arrived(b, i, TRUE, status)
    /\ UNCHANGED <<Config, lookups, request, call, options, max, pc, err, errorReasons,
                   aborted, signals, resolution, ips, ipAndUrl, rejections,
                   responses, settled, attestations, vInFlight, VerifierLocals,
                   verifyRequests, reports, result>>

\* fetch: the response of one address has ended, whatever its status. The
\* Promise.any of its backend takes the first one and ignores the later ones.
fetch_resolve(b, i, Codes) ==
  \E status \in Codes :
    /\ <<b, i>> \in inFlight
    /\ inFlight' = inFlight \ {<<b, i>>}
    /\ UNCHANGED wire
    /\ IF race[b] = "pending"
         THEN /\ race' = [race EXCEPT ![b] = "fulfilled"]
              /\ winner' = [winner EXCEPT ![b] = i]
              /\ settleOrder' = Append(settleOrder, b)
         ELSE UNCHANGED <<race, winner, settleOrder>>
    /\ arrivals' = Arrived(b, i, TRUE, status)
    /\ UNCHANGED <<Config, lookups, request, call, options, max, pc, err, errorReasons,
                   aborted, signals, resolution, ips, ipAndUrl, rejections,
                   responses, settled, attestations, vInFlight, VerifierLocals,
                   verifyRequests, reports, result>>

\* (mutant) the race of a backend rejects with the first address that fails.
fetch_reject_FirstFails(b, i) ==
  /\ <<b, i>> \in inFlight
  /\ inFlight' = inFlight \ {<<b, i>>}
  /\ UNCHANGED wire
  /\ IF race[b] = "pending"
       THEN /\ rejections' = [rejections EXCEPT ![b] = @ + 1]
            /\ race' = [race EXCEPT ![b] = "rejected"]
            /\ settleOrder' = Append(settleOrder, b)
       ELSE UNCHANGED <<race, rejections, settleOrder>>
  /\ arrivals' = Arrived(b, i, FALSE, NoStatus)
  /\ UNCHANGED <<Config, lookups, request, call, options, max, pc, err, errorReasons,
                 aborted, signals, resolution, ips, ipAndUrl, winner, responses,
                 settled, attestations, vInFlight, VerifierLocals, verifyRequests,
                 reports, result>>

\* fetch: the request of one address has emitted 'error'. The Promise.any of
\* its backend rejects once every address has.
fetch_reject(b, i) ==
  /\ <<b, i>> \in inFlight
  /\ inFlight' = inFlight \ {<<b, i>>}
  /\ UNCHANGED wire
  /\ IF race[b] = "pending"
       THEN /\ rejections' = [rejections EXCEPT ![b] = @ + 1]
            /\ IF rejections'[b] = ipCount[b]
                 THEN /\ race' = [race EXCEPT ![b] = "rejected"]
                      /\ settleOrder' = Append(settleOrder, b)
                 ELSE UNCHANGED <<race, settleOrder>>
       ELSE UNCHANGED <<race, rejections, settleOrder>>
  /\ arrivals' = Arrived(b, i, FALSE, NoStatus)
  /\ UNCHANGED <<Config, lookups, request, call, options, max, pc, err, errorReasons,
                 aborted, signals, resolution, ips, ipAndUrl, winner, responses,
                 settled, attestations, vInFlight, VerifierLocals, verifyRequests,
                 reports, result>>

\* (mutant) the join returns as soon as one race has settled.
AllSettled_First(races) == \E b \in Backends : races[b] \in {"fulfilled", "rejected"}

\* Promise.allSettled: every backend's race has settled.
AllSettled(races) == \A b \in Backends : races[b] \in {"fulfilled", "rejected"}

\* requestBackendMesh returns its responses, or throws when it has none.
requestBackendMesh_settle ==
  /\ pc = "racing"
  /\ AllSettled(race)
  /\ responses' = SettledResponses(race, winner, settleOrder)
  /\ IF Len(responses') = 0
       THEN ThrowReasons(Error("Error", "all backends responded with errors"),
                         Stringified({Rejection(b) : b \in Backends}))
       ELSE /\ pc' = "interpreting"
            /\ UNCHANGED <<err, errorReasons>>
  /\ UNCHANGED <<Config, lookups, request, call, options, max, aborted, signals,
                 inFlight, wire, resolution, ips, ipAndUrl, race, rejections,
                 winner, settleOrder, arrivals, settled, attestations, vInFlight,
                 VerifierLocals, verifyRequests, reports, result>>

\* The locals of the fan-out (the resolved mesh, the settled promises, the
\* responses) go with the return of the function that holds them.
DropFanOutLocals ==
  /\ resolution' = [b \in Backends |-> "idle"]
  /\ ips' = [b \in Backends |-> <<>>]
  /\ ipAndUrl' = [b \in Backends |-> <<>>]
  /\ race' = [b \in Backends |-> "idle"]
  /\ rejections' = [b \in Backends |-> 0]
  /\ winner' = [b \in Backends |-> 0]
  /\ settleOrder' = <<>>
  /\ arrivals' = [b \in Backends |-> <<>>]
  /\ responses' = <<>>

\* The status of the response that the race of a backend took.
statusCode(response) ==
  LET arrived == arrivals[response.backend]
      k == CHOOSE j \in 1..Len(arrived) : arrived[j].ok /\ arrived[j].ip = response.ip
  IN  arrived[k].status

\* What the interpreter reads from the responses: the status each one was
\* delivered with, or any status where that was left open.
Readable(contents) ==
  \A k \in 1..Len(responses) : statusCode(responses[k]) \in {Deferred, contents[k].status}

\* settleAttestationResponses over the responses, whose status and body are
\* read here for the first time. With its return the locals of the fan-out
\* (the resolved mesh, the settled promises, the responses) are gone.
settleAttestationResponses(Contents) ==
  \E contents \in [1..Len(responses) -> Contents] :
    /\ pc = "interpreting"
    /\ call # "enclavesInfo"
    /\ Readable(contents)
    /\ settled' = SettledResult(responses, contents,
                      [k \in 1..Len(responses) |->
                         handleAttestationResponse(call = "testSelector", contents[k])])
    /\ attestations' = SettledAttestations(settled')
    /\ IF Len(attestations') = 0
         THEN /\ ThrowReasons(Error("Error", "all attestations failed"),
                              Stringified(SettledErrors(settled')))
              /\ result' = result
         ELSE IF call = "testSelector"
           THEN /\ pc' = "done"
                /\ result' = attestations'
                /\ UNCHANGED <<err, errorReasons>>
           ELSE /\ pc' = "validating"
                /\ UNCHANGED <<err, errorReasons, result>>
    /\ DropFanOutLocals
    /\ UNCHANGED <<Config, lookups, request, call, options, max, aborted, signals,
                   inFlight, wire, vInFlight, VerifierLocals, verifyRequests,
                   reports>>

\* enclavesInfo from the return of requestBackendMesh on: handleInfoResponse
\* over the responses, the payloads of those that interpret successfully.
enclavesInfo_settle(Contents) ==
  \E contents \in [1..Len(responses) -> Contents] :
    /\ pc = "interpreting"
    /\ call = "enclavesInfo"
    /\ Readable(contents)
    /\ settled' = SettledResult(responses, contents,
                      [k \in 1..Len(responses) |-> handleInfoResponse(contents[k])])
    /\ result' = SettledAttestations(settled')
    /\ IF Len(result') = 0
         THEN ThrowReasons(Error("Error", "all info requests have failed"),
                           Stringified(SettledErrors(settled')))
         ELSE /\ pc' = "done"
              /\ UNCHANGED <<err, errorReasons>>
    /\ DropFanOutLocals
    /\ UNCHANGED <<Config, lookups, request, call, options, max, aborted, signals,
                   inFlight, wire, attestations, vInFlight, VerifierLocals,
                   verifyRequests, reports>>

\* handleAttestations: the client side validation, then verifyReports up to
\* its await of getOrResolveFullAddress for the verifier.
handleAttestations ==
  /\ pc = "validating"
  /\ IF ValidationError(attestations, options) # NoError
       THEN /\ Throw(ValidationError(attestations, options))
            /\ UNCHANGED <<signals, vResolution, vIpCount>>
       ELSE /\ pc' = "verifyResolving"
            /\ verifyReports_signal(options.timeout)
            /\ UNCHANGED <<err, errorReasons>>
            /\ vResolution' = IF verifierLookup THEN "pending" ELSE "resolved"
            /\ vIpCount' = IF verifierLookup THEN 0 ELSE 1
  /\ UNCHANGED <<Config, lookups, request, call, options, max, aborted, inFlight, wire,
                 FanOutLocals, settled, attestations, vInFlight, vRace,
                 vRejections, verifierBody, verifyRequests, reports, result>>

\* dns.resolve4 answers for the verifier.
verifier_resolve_ok ==
  \E n \in 1..MaxIps :
    /\ pc = "verifyResolving"
    /\ vResolution = "pending"
    /\ vResolution' = "resolved"
    /\ vIpCount' = n
    /\ UNCHANGED <<Config, lookups, request, call, options, max, pc, err, errorReasons,
                   aborted, signals, inFlight, wire, FanOutLocals, settled,
                   attestations, vInFlight, vRace, vRejections, verifierBody,
                   verifyRequests, reports, result>>

\* dns.resolve4 fails for the verifier: verifyReports rethrows.
verifier_resolve_fail ==
  /\ pc = "verifyResolving"
  /\ vResolution = "pending"
  /\ vResolution' = "failed"
  /\ ThrowReasons(Error("Error", "resolution failed"), {Reason("resolution", 0, 0)})
  /\ UNCHANGED <<Config, lookups, request, call, options, max, aborted, signals,
                 inFlight, wire, FanOutLocals, settled, attestations, vInFlight,
                 vIpCount, vRace, vRejections, verifierBody, verifyRequests,
                 reports, result>>

\* The attestations in the order sort() gives their timestamps.
RECURSIVE ByTimestamp(_)
ByTimestamp(atts) ==
  IF atts = <<>> THEN <<>>
  ELSE LET rest == ByTimestamp(SubSeq(atts, 1, Len(atts) - 1))
           x == atts[Len(atts)]
           before == SelectSeq(rest, LAMBDA y : ~SortCompareLess(x.timestamp, y.timestamp))
           after == SelectSeq(rest, LAMBDA y : SortCompareLess(x.timestamp, y.timestamp))
       IN  before \o <<x>> \o after

\* (mutant) the deviation check sorts the attestations themselves, and the
\* sorted list is what verifyReports posts.
verifyReports_send_SortedReports ==
  /\ pc = "verifyResolving"
  /\ vResolution = "resolved"
  /\ pc' = "verifying"
  /\ vInFlight' = 1..vIpCount
  /\ vRace' = IF vIpCount = 0 THEN "rejected" ELSE "pending"
  /\ verifyRequests' = verifyRequests + vIpCount
  /\ reports' = ByTimestamp(attestations)
  /\ UNCHANGED <<Config, lookups, request, call, options, max, err, errorReasons,
                 aborted, signals, inFlight, wire, FanOutLocals, settled,
                 attestations, vResolution, vIpCount, vRejections, verifierBody,
                 result>>

\* verifyReports once the verifier is resolved: the fetch options with the
\* body JSON.stringify({ reports: attestations }), one fetch per address.
verifyReports_send ==
  /\ pc = "verifyResolving"
  /\ vResolution = "resolved"
  /\ pc' = "verifying"
  /\ vInFlight' = 1..vIpCount
  /\ vRace' = IF vIpCount = 0 THEN "rejected" ELSE "pending"
  /\ verifyRequests' = verifyRequests + vIpCount
  /\ reports' = attestations
  /\ UNCHANGED <<Config, lookups, request, call, options, max, err, errorReasons,
                 aborted, signals, inFlight, wire, FanOutLocals, settled,
                 attestations, vResolution, vIpCount, vRejections, verifierBody,
                 result>>

\* fetch: the response of one address of the verifier has ended.
verifier_fetch_resolve(i) ==
  /\ i \in vInFlight
  /\ vInFlight' = vInFlight \ {i}
  /\ vRace' = IF vRace = "pending" THEN "fulfilled" ELSE vRace
  /\ UNCHANGED <<Config, lookups, request, call, options, max, pc, err, errorReasons,
                 aborted, signals, inFlight, wire, FanOutLocals, settled,
                 attestations, vResolution, vIpCount, vRejections, verifierBody,
                 verifyRequests, reports, result>>

\* fetch: the request to one address of the verifier has emitted 'error'.
verifier_fetch_reject(i) ==
  /\ i \in vInFlight
  /\ vInFlight' = vInFlight \ {i}
  /\ IF vRace = "pending"
       THEN /\ vRejections' = vRejections + 1
            /\ vRace' = IF vRejections' = vIpCount THEN "rejected" ELSE vRace
       ELSE UNCHANGED <<vRace, vRejections>>
  /\ UNCHANGED <<Config, lookups, request, call, options, max, pc, err, errorReasons,
                 aborted, signals, inFlight, wire, FanOutLocals, settled,
                 attestations, vResolution, vIpCount, verifierBody, verifyRequests,
                 reports, result>>

\* The Promise.any of verifyReports has settled: the rest of verifyReports and
\* of handleAttestations, reading the verifier's status and body. With the
\* return the locals of verifyReports are gone.
verifyReports_settle(Contents) ==
  /\ pc = "verifying"
  /\ vRace \in {"fulfilled", "rejected"}
  /\ IF vRace = "rejected"
       THEN /\ ThrowReasons(Error("AggregateError", "All promises were rejected"),
                            {Reason("transport", 0, i) : i \in 1..vIpCount})
            /\ UNCHANGED <<verifierBody, result>>
       ELSE \E body \in Contents :
              /\ verifierBody' = body
              /\ IF VerificationError(attestations, body) # NoError
                   THEN /\ Throw(VerificationError(attestations, body))
                        /\ result' = result
                   ELSE /\ pc' = "done"
                        /\ UNCHANGED <<err, errorReasons>>
                        /\ result' = validAttestations(attestations, body.validReports)
  /\ vResolution' = "idle"
  /\ vIpCount' = 0
  /\ vRace' = "idle"
  /\ vRejections' = 0
  /\ UNCHANGED <<Config, lookups, request, call, options, max, aborted, signals,
                 inFlight, wire, FanOutLocals, settled, attestations, vInFlight,
                 verifyRequests, reports>>

\* ---------------------------------------------------------- specifications

\* Every interleaving of the DNS answers and of the answers of every resolved
\* address, over the alphabets Mesh*.
Next ==
  \/ notarize(MeshOptions)
  \/ testSelector(Timeouts)
  \/ enclavesInfo(Timeouts)
  \/ getAttestedRandom(MeshRandomInputs, MeshOptions)
  \/ \E b \in Backends : resolve_ok(b, MeshAnswers)
  \/ \E b \in Backends : resolve_fail(b)
  \/ requestBackendMesh_send
  \/ abortSignal_timeout
  \/ \E b \in Backends, i \in Ips : fetch_resolve(b, i, {Deferred})
  \/ \E b \in Backends, i \in Ips : fetch_reject(b, i)
  \/ requestBackendMesh_settle
  \/ settleAttestationResponses(MeshContents)
  \/ enclavesInfo_settle(MeshContents)
  \/ handleAttestations
  \/ verifier_resolve_ok
  \/ verifier_resolve_fail
  \/ verifyReports_send
  \/ \E i \in Ips : verifier_fetch_resolve(i)
  \/ \E i \in Ips : verifier_fetch_reject(i)
  \/ verifyReports_settle(MeshVerifierContents)

Spec == Init /\ [][Next]_vars

\* Backends configured by literal IP (no lookup, one address each), over
\* every payload, option and verdict.
NextPayload ==
  \/ notarize(PayloadOptions)
  \/ testSelector({0})
  \/ enclavesInfo({0})
  \/ getAttestedRandom(RandomInputs, PayloadOptions)
  \/ requestBackendMesh_send
  \/ \E b \in Backends, i \in Ips : fetch_resolve(b, i, {Deferred})
  \/ \E b \in Backends, i \in Ips : fetch_reject(b, i)
  \/ requestBackendMesh_settle
  \/ settleAttestationResponses(ResponseContents)
  \/ enclavesInfo_settle(ResponseContents)
  \/ handleAttestations
  \/ verifyReports_send
  \/ \E i \in Ips : verifier_fetch_resolve(i)
  \/ \E i \in Ips : verifier_fetch_reject(i)
  \/ verifyReports_settle(VerifierContents)

SpecPayload == InitPayload /\ [][NextPayload]_vars

\* The resolution and the fan-out of an enclavesInfo call, over every
\* configuration of the notarizers and every answer of dns.resolve4.
NextResolver ==
  \/ enclavesInfo({0})
  \/ \E b \in Backends : resolve_ok(b, ResolverAnswers)
  \/ \E b \in Backends : resolve_fail(b)
  \/ requestBackendMesh_send
  \/ \E b \in Backends, i \in Ips : fetch_resolve(b, i, {Deferred})
  \/ \E b \in Backends, i \in Ips : fetch_reject(b, i)
  \/ requestBackendMesh_settle
  \/ enclavesInfo_settle(MeshContents)

SpecResolver == InitResolver /\ [][NextResolver]_vars

\* The fan-out of a notarize call with the status of every response known
\* from its delivery on, up to the interpretation of the responses.
NextStatus ==
  \/ notarize(StatusOptions)
  \/ \E b \in Backends : resolve_ok(b, MeshAnswers)
  \/ \E b \in Backends : resolve_fail(b)
  \/ requestBackendMesh_send
  \/ \E b \in Backends, i \in Ips : fetch_resolve(b, i, Statuses)
  \/ \E b \in Backends, i \in Ips : fetch_reject(b, i)
  \/ requestBackendMesh_settle
  \/ settleAttestationResponses(MeshContents)

SpecStatus == Init /\ [][NextStatus]_vars

\* notarize on backends configured by literal IP whose 200 bodies have the
\* shape of an attestation or not, with no deviation check asked for.
NextShape ==
  \/ notarize(StatusOptions)
  \/ requestBackendMesh_send
  \/ \E b \in Backends, i \in Ips : fetch_resolve(b, i, {Deferred})
  \/ \E b \in Backends, i \in Ips : fetch_reject(b, i)
  \/ requestBackendMesh_settle
  \/ settleAttestationResponses(ShapeContents)
  \/ handleAttestations
  \/ verifyReports_send
  \/ \E i \in Ips : verifier_fetch_resolve(i)
  \/ \E i \in Ips : verifier_fetch_reject(i)
  \/ verifyReports_settle(MeshVerifierContents)

SpecShape == InitPayload /\ [][NextShape]_vars

\* handleAttestations on any list of attestations, and the verification.
NextValidator ==
  \/ handleAttestations
  \/ verifyReports_send
  \/ \E i \in Ips : verifier_fetch_resolve(i)
  \/ \E i \in Ips : verifier_fetch_reject(i)
  \/ verifyReports_settle(MeshVerifierContents)

SpecValidator == InitValidator /\ [][NextValidator]_vars

\* A call up to the requests of its fan-out, on backends whose init has
\* headers.
NextFetch ==
  \/ enclavesInfo({0})
  \/ \E b \in Backends : resolve_ok(b, ResolverAnswers)
  \/ \E b \in Backends : resolve_fail(b)
  \/ requestBackendMesh_send

SpecFetch == InitFetch /\ [][NextFetch]_vars

\* The calls that return annotated results, on backends that resolve to one
\* address or two and whose bodies may have any member.
NextOrigin ==
  \/ notarize(StatusOptions)
  \/ enclavesInfo({0})
  \/ getAttestedRandom(MeshRandomInputs, StatusOptions)
  \/ \E b \in Backends : resolve_ok(b, MeshAnswers)
  \/ requestBackendMesh_send
  \/ \E b \in Backends, i \in Ips : fetch_resolve(b, i, {Deferred})
  \/ requestBackendMesh_settle
  \/ settleAttestationResponses(OriginContents)
  \/ enclavesInfo_settle(OriginContents)
  \/ handleAttestations
  \/ verifyReports_send
  \/ \E i \in Ips : verifier_fetch_resolve(i)
  \/ verifyReports_settle(MeshVerifierContents)

SpecOrigin == InitResolved /\ [][NextOrigin]_vars

\* A first client constructed from a config, then others from the same config.
NextConfig == constructor \/ constructor_again

SpecConfig == InitConfig /\ [][NextConfig]_vars

\* The constructor alone, on every configuration of the alphabet.
NextConstructor == constructor

SpecConstructor == InitConstructor /\ [][NextConstructor]_vars

\* Spec with the scheduling the runtime guarantees: a continuation whose
\* promise has settled runs, a timer that was set fires, and dns.resolve4
\* (which has its own timeout and retries) answers or fails. Nothing makes a
\* server answer an HTTP request.
FairSpec ==
  /\ Spec
  /\ WF_vars(requestBackendMesh_send)
  /\ WF_vars(requestBackendMesh_settle)
  /\ WF_vars(settleAttestationResponses(MeshContents))
  /\ WF_vars(enclavesInfo_settle(MeshContents))
  /\ WF_vars(handleAttestations)
  /\ WF_vars(verifyReports_send)
  /\ WF_vars(verifyReports_settle(MeshVerifierContents))
  /\ WF_vars(abortSignal_timeout)
  /\ WF_vars(\E b \in Backends : resolve_ok(b, MeshAnswers) \/ resolve_fail(b))
  /\ WF_vars(verifier_resolve_ok \/ verifier_resolve_fail)

\* ------------------------------------------------------------------ claims

SetMax(S) == CHOOSE x \in S : \A y \in S : y <= x
SetMin(S) == CHOOSE x \in S : \A y \in S : x <= y

TimestampsOf(atts) == {atts[i].timestamp : i \in 1..Len(atts)}
DataOf(atts) == {atts[i].attestationData : i \in 1..Len(atts)}

\* handleAttestations has run its client side checks on the attestations.
Validated == attestations # <<>> /\ pc # "validating"

DataMismatchError == Error("AttestationIntegrityError", "attestation data mismatch")
DeviationError == Error("AttestationIntegrityError", "attestation timestamps deviate too much")

\* C1: every result a call returns is one of the interpreted results of the
\* call, at a position the verifier accepted, out of a batch of 1..N results
\* whose data are all equal when dataShouldMatch and whose timestamps span at
\* most maxTimeDeviation when it is set.
C1_ReturnedOnlyIfValidatedAndAccepted ==
  (call \in {"notarize", "getAttestedRandom"} /\ pc = "done") =>
    /\ \A i \in 1..Len(result) :
         \E p \in 1..Len(attestations) :
           /\ result[i] = attestations[p]
           /\ (p - 1) \in Range(verifierBody.validReports)
    /\ Len(attestations) \in 1..numBackends
    /\ options.dataShouldMatch => Cardinality(DataOf(attestations)) = 1
    /\ options.maxTimeDeviation # NoDeviation =>
         SetMax(TimestampsOf(attestations)) - SetMin(TimestampsOf(attestations))
           <= options.maxTimeDeviation

\* C2: a notarize call that returns, returns between 1 and N results, and the
\* backend fan-out never yields more than N responses.
C2_ResultCount ==
  /\ (call = "notarize" /\ pc = "done") => Len(result) \in 1..numBackends
  /\ Len(responses) <= numBackends

C2_Witness ==
  /\ call = "notarize"
  /\ pc = "done"
  /\ numBackends = 3
  /\ Len(attestations) = 3
  /\ Len(result) = 1
  /\ \E x \in Range(verifierBody.validReports) : x \notin 0..2

\* C3: when the verifier answers 200 with a non-empty set S of positions of the
\* batch, the call returns without error exactly the attestations at the
\* positions of S, in their order in the batch.
C3_PartialVerdict ==
  LET S == Range(verifierBody.validReports) IN
  ( /\ verifierBody.status = 200
    /\ verifierBody.parses
    /\ S # {}
    /\ S \subseteq 0..(Len(attestations) - 1) )
  => /\ pc = "done"
     /\ err = NoError
     /\ Len(result) = Cardinality(S)
     /\ \A p \in S : result[Cardinality({q \in S : q < p}) + 1] = attestations[p + 1]

C3_Witness ==
  /\ pc = "done"
  /\ Len(attestations) = 3
  /\ verifierBody.validReports = <<0, 2>>
  /\ result = <<attestations[1], attestations[3]>>

\* C4: in a notarize call with dataShouldMatch, if two interpreted payloads
\* differ in attestationData the call fails with the data mismatch error and
\* no /verify request is sent.
C4_DataMismatchBeforeVerify ==
  ( /\ call = "notarize"
    /\ Validated
    /\ options.dataShouldMatch
    /\ Cardinality(DataOf(attestations)) > 1 )
  => /\ pc = "failed"
     /\ err = DataMismatchError
     /\ verifyRequests = 0
     /\ vInFlight = {}

C4_Witness ==
  /\ call = "notarize"
  /\ pc = "failed"
  /\ err = DataMismatchError
  /\ Len(attestations) = 3
  /\ attestations[1].attestationData = attestations[2].attestationData
  /\ attestations[3].attestationData # attestations[1].attestationData

\* C5: with maxTimeDeviation = D set, a batch that reaches the deviation check
\* fails with the timestamp deviation error if and only if its latest
\* timestamp minus its earliest exceeds D.
C5_DeviationCheck ==
  ( /\ Validated
    /\ options.maxTimeDeviation # NoDeviation
    /\ ~(options.dataShouldMatch /\ Cardinality(DataOf(attestations)) > 1) )
  => ( SetMax(TimestampsOf(attestations)) - SetMin(TimestampsOf(attestations))
         > options.maxTimeDeviation
       <=> (pc = "failed" /\ err = DeviationError) )

MeshError == Error("Error", "all backends responded with errors")

\* C6: requestBackendMesh returns or throws only once the race of every
\* backend has settled; it throws exactly when no race was fulfilled, and
\* otherwise returns the responses of the fulfilled races; a rejected race
\* fails the call in no other way.
C6_PartialFailureJoin ==
  /\ pc = "interpreting" =>
       /\ \A b \in Backends : race[b] \in {"fulfilled", "rejected"}
       /\ {responses[k].backend : k \in 1..Len(responses)}
            = {b \in Backends : race[b] = "fulfilled"}
       /\ Len(responses) = Cardinality({b \in Backends : race[b] = "fulfilled"})
       /\ Len(responses) >= 1
  /\ (pc = "failed" /\ err = MeshError) => \A b \in Backends : race[b] = "rejected"
  /\ pc = "failed" => \A b \in Backends : race[b] \in {"idle", "rejected"}

C6_Witness ==
  /\ pc = "interpreting"
  /\ \E b \in Backends : race[b] = "rejected"
  /\ \E b \in Backends : race[b] = "fulfilled"
  /\ \E k \in 1..Len(settleOrder) :
       /\ race[settleOrder[k]] = "rejected"
       /\ \E j \in (k + 1)..Len(settleOrder) : race[settleOrder[j]] = "fulfilled"

\* C7: a failed DNS resolution of one backend does not fail the call while
\* another backend has resolved or is resolving.
C7_ResolutionFailureIsLocal ==
  ( /\ \E b \in Backends : resolution[b] = "failed"
    /\ \E b \in Backends : resolution[b] \in {"pending", "resolved"} )
  => pc # "failed"

\* C8: in a notarize call with a timeout, when some backend has answered
\* before the deadline, the fan-out finishes (at the deadline at the latest)
\* with the survivors, instead of waiting for the backends that never answer.
C8_SurvivorsReturned ==
  ( /\ call = "notarize"
    /\ pc = "racing"
    /\ options.timeout > 0
    /\ ~aborted
    /\ \E b \in Backends : race[b] = "fulfilled" )
  ~> (pc # "racing")

\* C9: every call made with a positive timeout eventually returns or throws.
C9_CallSettles ==
  (pc # "idle" /\ options.timeout > 0) ~> (pc \in {"done", "failed"})

Increasing(a) == \A i, j \in 1..Len(a) : i < j => a[i].backend < a[j].backend

\* C10: the responses the fan-out returns and the attestations interpreted
\* from them are in the configured order of their backends.
C10_ConfiguredOrder == Increasing(responses) /\ Increasing(attestations)

C10_Witness ==
  /\ pc = "interpreting"
  /\ Len(responses) >= 2
  /\ \E i, j \in 1..Len(settleOrder) :
       /\ i < j
       /\ settleOrder[i] > settleOrder[j]
       /\ race[settleOrder[i]] = "fulfilled"
       /\ race[settleOrder[j]] = "fulfilled"

\* The addresses of backend b whose fetch completed without a transport error,
\* and those whose fetch failed, so far.
Succeeded(b) == {arrivals[b][k].ip : k \in {j \in 1..Len(arrivals[b]) : arrivals[b][j].ok}}
Failed(b) == {arrivals[b][k].ip : k \in {j \in 1..Len(arrivals[b]) : ~arrivals[b][j].ok}}

Racing(b) == race[b] # "idle"

\* C11: the race of a backend is fulfilled if and only if one of its addresses
\* has completed without a transport error; when exactly one address succeeded
\* and every other one failed, the race holds that address' response; when
\* every address failed, the race is rejected with as many failures as the
\* backend has addresses.
C11_IpRace ==
  \A b \in Backends : Racing(b) =>
    /\ race[b] = "fulfilled" <=> Succeeded(b) # {}
    /\ (Cardinality(Succeeded(b)) = 1 /\ Cardinality(Failed(b)) = ipCount[b] - 1)
         => (race[b] = "fulfilled" /\ winner[b] \in Succeeded(b))
    /\ Cardinality(Failed(b)) = ipCount[b]
         => (race[b] = "rejected" /\ rejections[b] = ipCount[b])
    /\ \A k \in 1..Len(responses) :
         responses[k].backend = b => responses[k].ip \in Succeeded(b)

\* The one success arrives after the failure of the other address.
C11_Witness ==
  \E b \in Backends :
    /\ ipCount[b] = 2
    /\ Len(arrivals[b]) = 2
    /\ ~arrivals[b][1].ok
    /\ arrivals[b][2].ok
    /\ race[b] = "fulfilled"
    /\ winner[b] = arrivals[b][2].ip
    /\ \E c \in Backends : ipCount[c] = 2 /\ race[c] = "rejected" /\ rejections[c] = 2

FirstSuccess(b) ==
  arrivals[b][CHOOSE k \in 1..Len(arrivals[b]) :
                /\ arrivals[b][k].ok
                /\ \A j \in 1..(k - 1) : ~arrivals[b][j].ok].ip

\* C12: when several addresses of a backend complete without transport error,
\* the race holds the response of the one that completed first, and the
\* fan-out returns that response and no other for the backend.
C12_FirstSuccessWins ==
  \A b \in Backends : (Racing(b) /\ Succeeded(b) # {}) =>
    /\ winner[b] = FirstSuccess(b)
    /\ \A k \in 1..Len(responses) :
         responses[k].backend = b => responses[k].ip = FirstSuccess(b)
    /\ Cardinality({k \in 1..Len(responses) : responses[k].backend = b}) <= 1

C12_Witness ==
  \E b \in Backends :
    /\ pc = "interpreting"
    /\ Cardinality(Succeeded(b)) = 2
    /\ \E k \in 1..Len(responses) :
         responses[k].backend = b /\ responses[k].ip = arrivals[b][1].ip

BoundError == Error("Error", "invalid upper bound for random")

\* x <= 1 or x > 2^128, read off the binary digits of x: 0 and 1 have at most
\* one digit, 2^128 is a 1 followed by 128 zeros.
OutOfRange(x) ==
  \/ Len(x) <= 1
  \/ Len(x) > 129
  \/ Len(x) = 129 /\ \E k \in 2..129 : x[k] = 1

\* C13: getAttestedRandom(max) throws the upper bound error exactly when
\* max <= 1 or max > 2^128, and when it does, resolveBackends has not been
\* entered and no request has been sent; for every other max the call goes on
\* to the resolution of the backends.
C13_RandomPrecondition ==
  call = "getAttestedRandom" =>
    /\ (pc = "failed" /\ err = BoundError) <=> OutOfRange(max)
    /\ OutOfRange(max) =>
         /\ \A b \in Backends : resolution[b] = "idle" /\ ipCount[b] = 0
         /\ inFlight = {}
         /\ vInFlight = {}
         /\ verifyRequests = 0
    /\ (~OutOfRange(max) /\ pc = "resolving") =>
         \A b \in Backends : resolution[b] \in {"pending", "resolved"}

\* 2^128 + 1 is refused.
C13_Witness ==
  /\ call = "getAttestedRandom"
  /\ max = <<1>> \o Zeros(127) \o <<1>>
  /\ pc = "failed"
  /\ err = BoundError

\* The addresses of backend b that the fan-out in progress has sent a request
\* to: those still unanswered and those whose fetch has settled.
Sent(b) ==
  {i \in Ips : <<b, i>> \in inFlight} \cup {arrivals[b][k].ip : k \in 1..Len(arrivals[b])}

\* C14: a getAttestedRandom call with a valid max sends exactly one request
\* per configured backend, a GET without body of /random?max=<max in decimal>.
C14_OneRandomRequestPerBackend ==
  (call = "getAttestedRandom" /\ pc = "racing") =>
    /\ request.method = "GET"
    /\ ~request.body
    /\ request.path = "/random"
    /\ request.query = BigToString(max)
    /\ max = <<1, 0>> => request.query = <<2>>
    /\ \A b \in Backends : Cardinality(Sent(b)) = 1

IntegrityFailure == pc = "failed" /\ err.class = "AttestationIntegrityError"

\* C15: once the verifier has answered, the call fails with an
\* AttestationIntegrityError if the status is not 200, if the body does not
\* parse, or if the verdict accepts no attestation of the batch.
C15_VerificationIntegrityErrors ==
  verifierBody # NoVerifierBody =>
    /\ verifierBody.status # 200 => IntegrityFailure
    /\ ~verifierBody.parses => IntegrityFailure
    /\ ( /\ verifierBody.status = 200
         /\ verifierBody.parses
         /\ \A p \in 1..Len(attestations) : (p - 1) \notin Range(verifierBody.validReports) )
       => IntegrityFailure

\* The payloads of the responses that came with status 200 and a body that
\* parses, in the order of the responses.
SuccessPayloads ==
  LET success(s) == s.content.status = 200 /\ s.content.parses
      kept == SelectSeq(settled, success)
  IN  [k \in 1..Len(kept) |->
         [backend |-> kept[k].backend,
          enclaveUrl |-> enclaveUrl(kept[k].backend, kept[k].content),
          attestationData |-> kept[k].content.attestationData,
          timestamp |-> kept[k].content.timestamp]]

\* C16: a testSelector call sends its requests with debugRequest = true, never
\* reaches the validation or the verification (no /verify request, no
\* integrity error), and returns the payload of every backend that answered
\* successfully, one per backend, whether or not the payloads agree.
C16_TestSelector ==
  call = "testSelector" =>
    /\ verifyRequests = 0
    /\ vInFlight = {}
    /\ pc \notin {"validating", "verifyResolving", "verifying"}
    /\ err.class # "AttestationIntegrityError"
    /\ request # NoRequest =>
         /\ request.debugRequest
         /\ request.method = "POST"
         /\ request.path = "/notarize"
    /\ pc = "done" => (result = SuccessPayloads /\ Len(result) >= 1)
    /\ (pc = "failed" /\ settled # <<>>) => SuccessPayloads = <<>>

\* Three payloads returned: the first two differ in data and in timestamp by
\* more than any deviation, the last two are equal.
C16_Witness ==
  /\ call = "testSelector"
  /\ pc = "done"
  /\ Len(result) = 3
  /\ result[1].attestationData # result[2].attestationData
  /\ result[2].timestamp - result[1].timestamp = 2
  /\ result[2].attestationData = result[3].attestationData
  /\ result[2].timestamp = result[3].timestamp

\* C17: an enclavesInfo call sends GET requests without body for /info, never
\* reaches the validation or the verification, returns the payload of every
\* backend that answered 200 with a body that parses, and throws only when
\* there is no such backend.
C17_EnclavesInfo ==
  call = "enclavesInfo" =>
    /\ verifyRequests = 0
    /\ vInFlight = {}
    /\ pc \notin {"validating", "verifyResolving", "verifying"}
    /\ err.class # "AttestationIntegrityError"
    /\ request # NoRequest =>
         /\ request.method = "GET"
         /\ ~request.body
         /\ request.path = "/info"
         /\ request.query = <<>>
    /\ pc = "done" => (result = SuccessPayloads /\ Len(result) >= 1)
    /\ pc = "failed" => SuccessPayloads = <<>>

\* One payload returned out of three responses, the two others an error
\* status and a body that does not parse.
C17_Witness ==
  /\ call = "enclavesInfo"
  /\ pc = "done"
  /\ Len(settled) = 3
  /\ settled[1].content.status = 500 /\ settled[1].content.parses
  /\ settled[2].content.status = 200 /\ ~settled[2].content.parses
  /\ Len(result) = 1
  /\ result[1].backend = 3

\* C18: handleAttestationResponse settles every response in exactly one way:
\* a body that does not parse, an Error, whatever the status; a parsed body
\* with a status other than 200, a DebugAttestationError when the call is a
\* debug one and the body has a responseBody, an AttestationError otherwise;
\* a parsed body with status 200, the payload.
C18_ResponseClassification ==
  call # "enclavesInfo" =>
    \A k \in 1..Len(settled) :
      LET content == settled[k].content
          outcome == settled[k].outcome
          debug == call = "testSelector"
      IN  /\ ~content.parses => outcome = "Error"
          /\ (content.parses /\ content.status # 200 /\ debug /\ content.responseBody)
               => outcome = "DebugAttestationError"
          /\ (content.parses /\ content.status # 200 /\ ~(debug /\ content.responseBody))
               => outcome = "AttestationError"
          /\ (content.parses /\ content.status = 200) => outcome = "ok"

\* A debug call that met a debug error, a body that does not parse under
\* status 200, and a payload.
C18_Witness ==
  /\ call = "testSelector"
  /\ Len(settled) = 3
  /\ \E k \in 1..3 : settled[k].outcome = "DebugAttestationError"
  /\ \E k \in 1..3 :
       /\ settled[k].outcome = "Error"
       /\ settled[k].content.status = 200
  /\ \E k \in 1..3 : settled[k].outcome = "ok"

\* The failures of the branches of the call that the state still shows: the
\* resolutions that failed, the requests that failed, the responses whose
\* interpretation threw.
BranchFailures ==
  {Reason("resolution", b, 0) : b \in {c \in Backends : resolution[c] = "failed"}}
    \cup {Reason("transport", r[1], r[2]) :
            r \in {q \in Backends \X Ips : q[2] \in Failed(q[1])}}
    \cup SettledErrors(settled)

\* The thrown error reports the failure r, itself or inside an aggregate.
Retained(r) == r \in errorReasons \/ \E a \in errorReasons : r \in a.errors

\* C19: when a call has returned or thrown, the failure of every branch that
\* failed during the call is reported by what the call produced.
C19_NoReasonDropped ==
  pc \in {"done", "failed"} => \A r \in BranchFailures : Retained(r)

\* C20: when a call has returned or thrown, none of the requests it started
\* is still unanswered.
C20_NoRequestOutlivesCall ==
  pc \in {"done", "failed"} => (inFlight = {} /\ vInFlight = {})

\* C21: getOrResolveFullAddress makes no lookup and returns [address] when the
\* address is a literal IP or resolve is false; otherwise it makes one lookup
\* and returns one target per address of the answer, in the order of the
\* answer.
C21_AddressResolver ==
  \A b \in Backends :
    /\ (pc # "idle" /\ (isIP[b] \/ ~resolve[b])) =>
         /\ lookups[b] = 0
         /\ resolution[b] \in {"resolved", "idle"}
         /\ resolution[b] = "resolved" => ipAndUrl[b] = <<0>>
    /\ (pc # "idle" /\ ~isIP[b] /\ resolve[b]) =>
         /\ lookups[b] = 1
         /\ resolution[b] = "resolved" =>
              /\ Len(ipAndUrl[b]) = Len(ips[b])
              /\ \A k \in 1..Len(ips[b]) : ipAndUrl[b][k] = ips[b][k]
              /\ \A k \in 1..Len(ips[b]) : ips[b][k] # 0

\* A name that resolved to addresses 2 and 1 in that order, next to a name
\* configured without resolve.
C21_Witness ==
  \E b, c \in Backends :
    /\ ~isIP[b] /\ resolve[b]
    /\ resolution[b] = "resolved"
    /\ ips[b] = <<2, 1>>
    /\ ipAndUrl[b] = <<2, 1>>
    /\ ~isIP[c] /\ ~resolve[c]
    /\ ipAndUrl[c] = <<0>>
    /\ lookups[c] = 0

\* C22: a backend whose resolution has succeeded has at least one target, and
\* the race of every backend starts with at least one request.
C22_ResolvedNonEmpty ==
  \A b \in Backends :
    /\ resolution[b] = "resolved" => Len(ipAndUrl[b]) >= 1
    /\ pc = "racing" => (Sent(b) # {} /\ rejections[b] <= Cardinality(Sent(b)))

C22_Witness ==
  \E b, c \in Backends :
    /\ pc = "racing"
    /\ isIP[b] /\ ~resolve[b]
    /\ Sent(b) = {0}
    /\ ~isIP[c] /\ resolve[c]
    /\ Sent(c) = {1, 2}

\* An apiPrefix that is empty, or starts with exactly one slash and does not
\* end with one, next to an address that does not end with a slash.
Normalised(backend) ==
  /\ \/ backend.apiPrefix = <<>>
     \/ /\ StartsWithSlash(backend.apiPrefix)
        /\ Len(backend.apiPrefix) > 1 => backend.apiPrefix[2] # "/"
        /\ ~EndsWithSlash(backend.apiPrefix)
  /\ ~EndsWithSlash(backend.address)

\* C23: after construction every stored backend, notarizers and verifier, has
\* an apiPrefix that is empty or begins with exactly one slash and does not
\* end with a slash, and an address that does not end with a slash.
C23_StoredBackendsNormalised ==
  pc # "new" =>
    /\ \A b \in 1..Len(oracleBackends) : Normalised(oracleBackends[b])
    /\ Normalised(verifier)

\* The part of C23 that holds: no address ends with a slash, no prefix starts
\* with two, and the only prefix that ends with a slash is the slash alone.
C23_AllButLoneSlash ==
  pc # "new" =>
    \A backend \in {oracleBackends[b] : b \in 1..Len(oracleBackends)} \cup {verifier} :
      \/ Normalised(backend)
      \/ backend.apiPrefix = <<"/">> /\ ~EndsWithSlash(backend.address)

\* The stage of the call: resolving and racing are one stage, as are the
\* resolution of the verifier and the verification request.
Stage(at) ==
  CASE at = "idle" -> 0
    [] at \in {"resolving", "racing"} -> 1
    [] at = "interpreting" -> 2
    [] at = "validating" -> 3
    [] at \in {"verifyResolving", "verifying"} -> 4
    [] at = "done" -> 5
    [] OTHER -> 6

\* The position within the stages: racing follows resolving, the verification
\* request follows the resolution of the verifier.
Position(at) ==
  2 * Stage(at) + (IF at \in {"racing", "verifying"} THEN 1 ELSE 0)

\* The step writes nothing to the network: no lookup, no attestation request,
\* no verification request.
NoRequestIssued ==
  /\ inFlight' \subseteq inFlight
  /\ vInFlight' \subseteq vInFlight
  /\ verifyRequests' = verifyRequests
  /\ lookups' = lookups

\* C24: a notarize call goes through resolving/racing, interpreting,
\* validating, verifying and done in that order, one stage at a time and
\* never backwards; once an error is thrown the call stays failed, no stage
\* runs and no request is issued.
C24_StagesInOrder ==
  [][call' = "notarize" =>
       /\ pc' # "failed" =>
            /\ Stage(pc') \in {Stage(pc), Stage(pc) + 1}
            /\ Position(pc') >= Position(pc)
       /\ (pc = "failed" \/ err # NoError) =>
            /\ pc' = "failed"
            /\ err' = err
            /\ NoRequestIssued
       /\ pc = "done" => (pc' = "done" /\ NoRequestIssued)]_vars

\* A call that failed before the verification with attestation requests
\* still unanswered, and sent nothing to the verifier.
C24_Witness ==
  /\ call = "notarize"
  /\ pc = "failed"
  /\ inFlight # {}
  /\ verifyRequests = 0

\* C25: with more than one notarizer configured, notarize succeeds only if
\* the attestation request to every configured backend succeeded.
C25_AllRequestsMustSucceed ==
  (call = "notarize" /\ pc = "done" /\ numBackends > 1) =>
    /\ Len(attestations) = numBackends
    /\ {attestations[k].backend : k \in 1..Len(attestations)} = Backends

\* The same attestations with other timestamps, with other data.
Retimed(atts, ts) == [k \in 1..Len(atts) |-> [atts[k] EXCEPT !.timestamp = ts[k]]]

Redated(atts, data) == [k \in 1..Len(atts) |-> [atts[k] EXCEPT !.attestationData = data[k]]]

\* The positions selected: the backends of the attestations returned.
BackendsOf(atts) == [k \in 1..Len(atts) |-> atts[k].backend]

\* What handleAttestations does with the attestations and the verifier's
\* answer: the error it throws, or the positions it returns.
Outcome(atts, opts, body) ==
  IF ValidationError(atts, opts) # NoError
    THEN [error |-> ValidationError(atts, opts), selected |-> <<>>]
  ELSE IF VerificationError(atts, body) # NoError
    THEN [error |-> VerificationError(atts, body), selected |-> <<>>]
  ELSE [error |-> NoError, selected |-> BackendsOf(validAttestations(atts, body.validReports))]

\* The verifier has answered and handleAttestations has returned or thrown.
Verified == verifierBody # NoVerifierBody /\ pc \in {"done", "failed"}

\* C26: with maxTimeDeviation undefined the outcome of notarize (the error
\* thrown, or the positions returned) is the same whatever the timestamps of
\* the attestations are; with dataShouldMatch false it is the same whatever
\* their attestationData are, and no data mismatch is ever thrown.
C26_UncheckedFieldsIgnored ==
  (call = "notarize" /\ Validated) =>
    /\ Verified =>
         /\ err = Outcome(attestations, options, verifierBody).error
         /\ BackendsOf(result) = Outcome(attestations, options, verifierBody).selected
    /\ (pc = "failed" /\ ~Verified /\ verifyRequests = 0) =>
         err = ValidationError(attestations, options)
    /\ options.maxTimeDeviation = NoDeviation =>
         /\ err # DeviationError
         /\ \A ts \in [1..Len(attestations) -> Timestamps] :
              /\ ValidationError(Retimed(attestations, ts), options)
                   = ValidationError(attestations, options)
              /\ Verified =>
                   Outcome(Retimed(attestations, ts), options, verifierBody)
                     = Outcome(attestations, options, verifierBody)
    /\ ~options.dataShouldMatch =>
         /\ err # DataMismatchError
         /\ \A data \in [1..Len(attestations) -> AttestationData] :
              /\ ValidationError(Redated(attestations, data), options)
                   = ValidationError(attestations, options)
              /\ Verified =>
                   Outcome(Redated(attestations, data), options, verifierBody)
                     = Outcome(attestations, options, verifierBody)

\* A call that succeeded on timestamps two apart and on different data, with
\* neither check asked for.
C26_Witness ==
  /\ call = "notarize"
  /\ pc = "done"
  /\ options.maxTimeDeviation = NoDeviation
  /\ ~options.dataShouldMatch
  /\ {10, 11} \subseteq TimestampsOf(attestations)
  /\ DataOf(attestations) = AttestationData
  /\ Len(result) >= 2

\* C27: a notarize call creates exactly one deadline when a timeout is
\* configured and none otherwise, and the requests of the fan-out and the
\* verification request are handed that one deadline, or none.
C27_OneDeadline ==
  (call = "notarize" /\ pc # "idle") =>
    /\ Len(signals.created) = (IF options.timeout > 0 THEN 1 ELSE 0)
    /\ signals.mesh = Len(signals.created)
    /\ pc \in {"verifyResolving", "verifying", "done"} => signals.verify = signals.mesh
    /\ \A k \in 1..Len(signals.created) : signals.created[k] = options.timeout

\* The part of C27 that holds: the fan-out is handed one deadline of
\* options.timeout ms if that is positive and none otherwise, and a call has
\* at most two deadlines, the second one made by verifyReports.
C27_FanOutDeadline ==
  (call = "notarize" /\ pc # "idle") =>
    /\ signals.mesh = (IF options.timeout > 0 THEN 1 ELSE 0)
    /\ signals.mesh = 1 => signals.created[1] = options.timeout
    /\ Len(signals.created) <= signals.mesh + 1
    /\ signals.verify \in {0, signals.mesh + 1}
    /\ signals.verify # 0 =>
         signals.created[signals.verify]
           = (IF options.timeout > 0 THEN options.timeout ELSE DEFAULT_TIMEOUT_MS)

\* The responses that arrived for a backend with an error status.
ErrorResponses(b) ==
  {k \in 1..Len(arrivals[b]) : arrivals[b][k].status \in Statuses \ {200}}

\* C28: a response with a non-2xx status is a success of the race of its
\* backend and of the fan-out: it is never counted as a transport failure, it
\* wins the race if it is the first response of its backend, it is among the
\* responses handed to the interpreter, and the interpreter turns it into an
\* error.
C28_ErrorStatusIsDelivered ==
  /\ \A b \in Backends :
       /\ \A k \in ErrorResponses(b) :
            /\ arrivals[b][k].ok
            /\ race[b] = "fulfilled"
            /\ (\A j \in 1..(k - 1) : ~arrivals[b][j].ok) => winner[b] = arrivals[b][k].ip
       /\ rejections[b] <= Cardinality(Failed(b))
       /\ (pc = "interpreting" /\ ErrorResponses(b) # {}) =>
            \E k \in 1..Len(responses) :
              responses[k].backend = b /\ responses[k].ip = winner[b]
  /\ (pc = "failed" /\ err = MeshError) => \A b \in Backends : ErrorResponses(b) = {}
  /\ \A k \in 1..Len(settled) :
       settled[k].content.status # 200 => settled[k].outcome = "AttestationError"

\* The first address of a backend answers 500 and the second one 200: the
\* race holds the error response, which goes to the interpreter.
C28_Witness ==
  \E b \in Backends :
    /\ pc = "interpreting"
    /\ Len(arrivals[b]) = 2
    /\ arrivals[b][1].status = 500
    /\ arrivals[b][2].status = 200
    /\ winner[b] = arrivals[b][1].ip
    /\ \E k \in 1..Len(responses) :
         responses[k].backend = b /\ responses[k].ip = arrivals[b][1].ip

\* C29: a 200 response whose body parses but has not the shape of an
\* attestation is rejected by the interpreter: it yields no attestation for
\* the validation or the verification, and none is returned.
C29_ShapelessRejected ==
  /\ \A k \in 1..Len(settled) :
       settled[k].content = Shapeless =>
         /\ settled[k].outcome # "ok"
         /\ \A j \in 1..Len(attestations) : attestations[j].backend # settled[k].backend
  /\ \A j \in 1..Len(attestations) : attestations[j].attestationData # "undefined"
  /\ \A j \in 1..Len(result) : result[j].timestamp # NoTimestamp

UnexpectedNumberError ==
  Error("AttestationIntegrityError", "unexpected number of attestations")

\* C30: given no attestation, or more attestations than there are notarizers,
\* handleAttestations throws the 'unexpected number of attestations' integrity
\* error whatever the data and the timestamps are, and nothing is resolved or
\* sent for a verification; given any other number it does not throw it.
C30_UnexpectedNumber ==
  pc # "validating" =>
    /\ (Len(attestations) = 0 \/ Len(attestations) > numBackends) =>
         /\ pc = "failed"
         /\ err = UnexpectedNumberError
         /\ signals.verify = 0
         /\ vResolution = "idle"
         /\ verifyRequests = 0
         /\ vInFlight = {}
         /\ verifierBody = NoVerifierBody
    /\ Len(attestations) \in 1..numBackends => err # UnexpectedNumberError

\* More attestations than notarizers, with different data and deviating
\* timestamps under options that check both: the count is what is reported.
C30_Witness ==
  /\ pc = "failed"
  /\ Len(attestations) = numBackends + 1
  /\ options.dataShouldMatch
  /\ options.maxTimeDeviation = 0
  /\ DataOf(attestations) = AttestationData
  /\ {10, 11} \subseteq TimestampsOf(attestations)
  /\ err = UnexpectedNumberError

\* C31: the reports posted to the verifier are the successfully interpreted
\* results, the same elements in the same order, whatever the deviation check
\* sorted; the validation leaves the list as the interpretation returned it.
C31_ReportsUnchanged ==
  call = "notarize" =>
    /\ Validated => attestations = SettledAttestations(settled)
    /\ pc \in {"verifying", "done"} => reports = attestations
    /\ verifyRequests > 0 => reports = SettledAttestations(settled)
    /\ verifyRequests = 0 => reports = <<>>

\* Reports posted in an order that is not the order of their timestamps,
\* after a deviation check that sorted the timestamps.
C31_Witness ==
  /\ call = "notarize"
  /\ pc = "verifying"
  /\ options.maxTimeDeviation # NoDeviation
  /\ Len(reports) >= 2
  /\ reports # ByTimestamp(reports)
  /\ reports = attestations

\* C32: every request written dials the address it was resolved to, with the
\* backend's configured address as TLS server name and as Host header,
\* whatever host headers the init of the backend carries.
C32_DialAndHost ==
  /\ \A r \in wire :
       /\ r.servername = oracleBackends[r.backend].address
       /\ HostHeader(r.headers) = oracleBackends[r.backend].address
       /\ pc = "racing" => r.host \in Range(ipAndUrl[r.backend])
       /\ needsLookup[r.backend] <=> r.host # 0
  /\ \A b \in Backends, i \in Ips :
       <<b, i>> \in inFlight => \E r \in wire : r.backend = b /\ r.host = i

\* The part of C32 that holds: the address dialled and the server name are
\* as claimed, the headers object has its host property set to the backend's
\* address, and that is the Host header sent unless init.headers has a host
\* property followed by one written in another case.
C32_DialAndServerName ==
  \A r \in wire :
    /\ r.servername = oracleBackends[r.backend].address
    /\ pc = "racing" => r.host \in Range(ipAndUrl[r.backend])
    /\ needsLookup[r.backend] <=> r.host # 0
    /\ \E k \in 1..Len(r.headers) :
         r.headers[k] = <<"host", oracleBackends[r.backend].address>>
    /\ initHeaders[r.backend] # << <<"host", <<"x">>>>, <<"Host", <<"y">>>> >>
         => HostHeader(r.headers) = oracleBackends[r.backend].address

\* C33: every result that notarize, getAttestedRandom and enclavesInfo return
\* has as enclaveUrl the origin of the configured backend that produced it,
\* whichever address answered and whatever members the body has.
C33_EnclaveUrlIsOrigin ==
  (call \in {"notarize", "getAttestedRandom", "enclavesInfo"} /\ pc = "done") =>
    \A k \in 1..Len(result) : result[k].enclaveUrl = origin(result[k].backend)

\* The part of C33 that holds: a result whose body has no enclaveUrl member
\* has the origin of its backend, whichever address answered.
C33_OriginUnlessInBody ==
  (call \in {"notarize", "getAttestedRandom", "enclavesInfo"} /\ pc = "done") =>
    \A k \in 1..Len(result) :
      \/ result[k].enclaveUrl = origin(result[k].backend)
      \/ \E j \in 1..Len(settled) :
           /\ settled[j].backend = result[k].backend
           /\ "enclaveUrl" \in DOMAIN settled[j].content
           /\ result[k].enclaveUrl = settled[j].content.enclaveUrl

\* C34: a construction leaves the caller's config, its notarizer and verifier
\* included, and the DEFAULT_* constants as they were, and a second construction
\* from the same config or from the defaults leaves the backends held by the
\* first client as they were.
C34_ConstructionChangesNothing ==
  [][/\ conf' = conf
     /\ DEFAULT_VERIFICATION_BACKEND = Spread(DEFAULT_VERIFICATION_BACKEND,
                                               Stored(Sanitized(DEFAULT_VERIFICATION_BACKEND)))
     /\ pc = "idle" => (oracleBackends' = oracleBackends /\ verifier' = verifier)]_vars

\* The part of C34 that holds: the defaults keep their values, the notarizers
\* of the first client are copies that no later construction changes, and a
\* config without notarizer and verifier is left as it was.
C34_DefaultsAndCopiesUnchanged ==
  [][/\ DEFAULT_VERIFICATION_BACKEND = Spread(DEFAULT_VERIFICATION_BACKEND,
                                               Stored(Sanitized(DEFAULT_VERIFICATION_BACKEND)))
     /\ pc = "idle" => oracleBackends' = oracleBackends
     /\ (pc = "idle" /\ ~conf.verifier.given) => verifier' = verifier
     /\ (~conf.notarizer.given /\ ~conf.verifier.given) => conf' = conf]_vars

\* C39: trimPath and trimUrl are idempotent on every string of '/', blank and
\* a letter: what the constructor stored is a fixed point of both, so a second
\* construction from the same configuration stores the same prefix and address.
C39_TrimIdempotent ==
  pc # "new" =>
    \A backend \in {oracleBackends[b] : b \in 1..Len(oracleBackends)} \cup {verifier} :
      /\ trimPath(backend.apiPrefix) = backend.apiPrefix
      /\ trimUrl(backend.address) = backend.address

\* The part of C39 that holds: both are idempotent on the strings in which no
\* blank comes just before the trailing slashes.
C39_IdempotentUnlessBlankBeforeSlash ==
  pc # "new" =>
    \A backend \in {oracleBackends[b] : b \in 1..Len(oracleBackends)} \cup {verifier} :
      /\ trimPath(backend.apiPrefix) # backend.apiPrefix
           => backend.apiPrefix[Len(backend.apiPrefix)] = " "
      /\ trimUrl(backend.address) # backend.address
           => backend.address[Len(backend.address)] = " "

\* C35: in notarize, testSelector, enclavesInfo and getAttestedRandom no
\* request goes to any backend while the resolution of some backend is
\* pending or has failed: the first request is sent in a step that finds
\* every backend resolved.
C35_ResolutionBarrier ==
  [][/\ (\E b \in 1..Len(resolution) : resolution[b] \in {"pending", "failed"})
          => (inFlight = {} /\ wire = {} /\ inFlight' = {} /\ wire' = {})
     /\ (inFlight' \ inFlight # {} \/ wire' # wire)
          => /\ call \in {"notarize", "testSelector", "enclavesInfo", "getAttestedRandom"}
             /\ \A b \in Backends : resolution[b] = "resolved"
             /\ \A r \in inFlight' : r[2] \in Range(ipAndUrl[r[1]])]_vars

\* One backend resolved by a lookup, another still pending, nothing sent.
C35_Witness ==
  /\ pc = "resolving"
  /\ inFlight = {}
  /\ \E b, c \in Backends :
       /\ needsLookup[b]
       /\ resolution[b] = "resolved"
       /\ ipCount[b] > 0
       /\ resolution[c] = "pending"

\* The positions of the responses with a body that parses and status 200.
Interpreted == {k \in 1..Len(settled) : settled[k].content.parses /\ settled[k].content.status = 200}

\* The k-th of them.
NthInterpreted(k) == CHOOSE p \in Interpreted : Cardinality({q \in Interpreted : q <= p}) = k

CountViolated == Len(attestations) = 0 \/ Len(attestations) > numBackends

DataViolated == options.dataShouldMatch /\ Cardinality(DataOf(attestations)) > 1

DeviationViolated ==
  /\ options.maxTimeDeviation # NoDeviation
  /\ attestations # <<>>
  /\ SetMax(TimestampsOf(attestations)) - SetMin(TimestampsOf(attestations))
       > options.maxTimeDeviation

\* The verification has begun, or has reported its error.
VerificationReached ==
  \/ pc \in {"verifyResolving", "verifying", "done"}
  \/ verifyRequests > 0
  \/ pc = "failed" /\ err \notin {UnexpectedNumberError, DataMismatchError, DeviationError}

\* C37: of the checks a batch violates the first in the order count, data,
\* timestamp deviation is the one reported, and the verification is reached,
\* and so reports an error, only on a batch that violates none of the three.
C37_Precedence ==
  pc # "validating" =>
    /\ CountViolated => (pc = "failed" /\ err = UnexpectedNumberError)
    /\ (~CountViolated /\ DataViolated) => (pc = "failed" /\ err = DataMismatchError)
    /\ (~CountViolated /\ ~DataViolated /\ DeviationViolated)
         => (pc = "failed" /\ err = DeviationError)
    /\ VerificationReached => (~CountViolated /\ ~DataViolated /\ ~DeviationViolated)

\* The part of C37 that holds: the count is reported before the data, the
\* data before the deviation, and the verification is reached only when
\* neither of the first two is violated and the deviation check, on the
\* timestamps in the order sort() leaves them in, did not throw.
C37_PrecedenceAsSorted ==
  pc # "validating" =>
    /\ CountViolated => (pc = "failed" /\ err = UnexpectedNumberError)
    /\ (~CountViolated /\ DataViolated) => (pc = "failed" /\ err = DataMismatchError)
    /\ err = DeviationError => (~CountViolated /\ ~DataViolated)
    /\ VerificationReached
         => (~CountViolated /\ ~DataViolated /\ ~TimestampsDeviate(attestations, options))

\* The positions of the batch that the verdict names.
Accepted == {p \in 1..Len(attestations) : (p - 1) \in Range(verifierBody.validReports)}

\* The k-th of them.
NthAccepted(k) == CHOOSE p \in Accepted : Cardinality({q \in Accepted : q <= p}) = k

\* C38: whatever list of integers the verifier returns with status 200, with
\* entries repeated, negative or beyond the batch, the call returns the
\* attestations at the positions the list names, each once and in the order of
\* the batch; when the list names no position of the batch the call fails with
\* an AttestationIntegrityError and returns nothing.
C38_VerdictSelectsSubsequence ==
  (Verified /\ verifierBody.status = 200 /\ verifierBody.parses) =>
    /\ Accepted # {} =>
         /\ pc = "done"
         /\ err = NoError
         /\ Len(result) = Cardinality(Accepted)
         /\ \A k \in 1..Len(result) : result[k] = attestations[NthAccepted(k)]
         /\ \A j, k \in 1..Len(result) : j < k => result[j].backend < result[k].backend
    /\ Accepted = {} => (IntegrityFailure /\ result = <<>>)

\* A verdict that names the second of three positions twice: the second
\* attestation is returned once.
C38_Witness ==
  /\ pc = "done"
  /\ Len(attestations) = 3
  /\ verifierBody.validReports = <<1, 1>>
  /\ result = <<attestations[2]>>

====
